---- MODULE Spec2Model ----
(***************************************************************************)
(* A model of the compliance-gated ingestion core of thesis-kedge:         *)
(*   - RobotsParser / RobotsCompliance   (src/src/common/robots.py)        *)
(*   - AdaptiveRPS                       (src/src/utils/adaptive_rps.py)   *)
(*   - RealWebCrawler                    (src/src/crawlers/real_crawler.py) *)
(*   - RateLimiter / HTTPClient.get      (src/src/common/http.py)          *)
(*   - IntegrityChecker                  (src/src/validation/integrity_check.py) *)
(* Each component has its own specification over the shared variables; the *)
(* variables of the other components stay at their idle values.            *)
(***************************************************************************)
EXTENDS Integers, Sequences, FiniteSets, TLC

VARIABLES
    \* RobotsParser.is_allowed applied to one url and one ruleset
    qUrl, qRules, qDone, qResult,
    \* RobotsParser / RobotsCompliance
    now, ticks, cache, manifests, rcall,
    \* AdaptiveRPS: the limiter object, the clock, the calls made so far
    limiter, aNow, fed, errs, lastStatus,
    \* RealWebCrawler: where crawl_site and its fetch_page stand
    crawl,
    \* AdaptiveRPS: the unbroken run of like feedback the limiter is in
    streak,
    \* IntegrityChecker: the silver layer, self.violations, the runs made,
    \* the reports returned, the last call
    silver, violations, runs, reports, icall,
    \* RateLimiter / HTTPClient.get: the limiter, the clock, the limiter's
    \* dict, where get stands, the requests that left, the last step
    rate_limiter, hNow, last_request_time, hpc, dispatched, dispatches, hcall

qVars == <<qUrl, qRules, qDone, qResult>>
robotsVars == <<now, ticks, cache, manifests, rcall>>
rpsVars == <<limiter, aNow, fed, errs, lastStatus, crawl, streak>>
integrityVars == <<silver, violations, runs, reports, icall>>
vars == <<qUrl, qRules, qDone, qResult, now, ticks, cache, manifests, rcall,
          limiter, aNow, fed, errs, lastStatus, crawl, streak,
          silver, violations, runs, reports, icall,
          rate_limiter, hNow, last_request_time, hpc, dispatched, dispatches, hcall>>
httpVars == <<rate_limiter, hNow, last_request_time, hpc, dispatched, dispatches, hcall>>

(***************************************************************************)
(* Strings are sequences of one-character strings, so that prefixes and    *)
(* wildcards are computed character by character as Python does.           *)
(***************************************************************************)
S_empty == <<>>
S_root == <<"/">>
S_product == <<"/", "p", "r", "o", "d", "u", "c", "t", "/">>
S_admin == <<"/", "a", "d", "m", "i", "n", "/">>
S_any_test == <<"/", "*", "/", "t", "e", "s", "t">>

S_product_test == <<"/", "p", "r", "o", "d", "u", "c", "t", "/", "t", "e", "s", "t">>
S_reviews_test == <<"/", "r", "e", "v", "i", "e", "w", "s", "/", "t", "e", "s", "t">>
S_p_test == <<"/", "p", "/", "t", "e", "s", "t">>
S_admin_x == <<"/", "a", "d", "m", "i", "n", "/", "x">>
S_other == <<"/", "o", "t", "h", "e", "r", "/">>

\* The rule patterns and url paths the harness draws from.
Patterns == {S_empty, S_root, S_product, S_admin, S_any_test}
Paths == {S_empty, S_product_test, S_reviews_test, S_p_test, S_admin_x, S_admin, S_other}

\* Longest allow / disallow list the harness draws.
MaxRuleLen == 2

\* Python's None, the empty dict {}, an absent "error" key, a float.
None == [type |-> "None"]
EmptyDict == [type |-> "dict"]
NoError == ""
Float(x) == [type |-> "float", val |-> x]

RuleLists == UNION {[1..n -> Patterns] : n \in 0..MaxRuleLen}

\* A ruleset as _parse_robots_content and the except branch of fetch_robots
\* build it.
Rules(allow, disallow, delay, fetched, err) ==
    [type |-> "rules", allow |-> allow, disallow |-> disallow, crawl_delay |-> delay,
     user_agent |-> "*", fetched_at |-> fetched, error |-> err]

\* Python truthiness of an Optional[Dict]: None and {} are falsy.
Truthy(rules) == rules # None /\ rules # EmptyDict

\* robots_rules.get("allow", []) and .get("disallow", [])
GetAllow(rules) == IF Truthy(rules) THEN rules.allow ELSE <<>>
GetDisallow(rules) == IF Truthy(rules) THEN rules.disallow ELSE <<>>

\* urlparse(url).path
UrlPath(url) == url.path

IsPrefix(p, s) == Len(p) <= Len(s) /\ \A i \in 1..Len(p) : s[i] = p[i]

\* re.match(rule_path.replace('*', '.*'), path): anchored at the start only,
\* every '*' matches any run of characters, the other characters literally.
RECURSIVE ReMatch(_, _, _, _)
ReMatch(path, i, pat, j) ==
    IF j > Len(pat) THEN TRUE
    ELSE IF pat[j] = "*"
         THEN \E k \in i..(Len(path) + 1) : ReMatch(path, k, pat, j + 1)
         ELSE /\ i <= Len(path)
              /\ path[i] = pat[j]
              /\ ReMatch(path, i + 1, pat, j + 1)

HasWildcard(rule_path) == \E i \in 1..Len(rule_path) : rule_path[i] = "*"

PathMatches(path, rule_path) ==
    IF rule_path = <<>> THEN FALSE
    ELSE IF HasWildcard(rule_path) THEN ReMatch(path, 1, rule_path, 1)
    ELSE path = rule_path \/ IsPrefix(rule_path, path)

\* The for loops of is_allowed: the first matching pattern ends the loop.
RECURSIVE AnyMatchFrom(_, _, _)
AnyMatchFrom(path, list, i) ==
    IF i > Len(list) THEN FALSE
    ELSE IF PathMatches(path, list[i]) THEN TRUE
    ELSE AnyMatchFrom(path, list, i + 1)

\* A variant that consults the allow list before the disallow list.
IsAllowedAllowFirst(url, robots_rules) ==
    IF ~Truthy(robots_rules) THEN TRUE
    ELSE IF GetAllow(robots_rules) # <<>>
              /\ AnyMatchFrom(UrlPath(url), GetAllow(robots_rules), 1) THEN TRUE
    ELSE IF AnyMatchFrom(UrlPath(url), GetDisallow(robots_rules), 1) THEN FALSE
    ELSE GetAllow(robots_rules) = <<>>

\* A variant that allows by default when no allow pattern matches.
IsAllowedDefaultAllow(url, robots_rules) ==
    IF ~Truthy(robots_rules) THEN TRUE
    ELSE ~AnyMatchFrom(UrlPath(url), GetDisallow(robots_rules), 1)

IsAllowed(url, robots_rules) ==
    IF ~Truthy(robots_rules) THEN TRUE
    ELSE IF AnyMatchFrom(UrlPath(url), GetDisallow(robots_rules), 1) THEN FALSE
    ELSE IF GetAllow(robots_rules) # <<>>
         THEN AnyMatchFrom(UrlPath(url), GetAllow(robots_rules), 1)
         ELSE TRUE

Url(domain, path) == [netloc |-> domain, path |-> path]

(***************************************************************************)
(* Idle values of each component's variables.                              *)
(***************************************************************************)
QIdle == qUrl = Url("", <<>>) /\ qRules = None /\ qDone = TRUE /\ qResult = TRUE

(***************************************************************************)
(* SpecIsAllowed: is_allowed applied once to a drawn url and ruleset.      *)
(***************************************************************************)
QRulesets ==
    {None, EmptyDict} \cup
    {Rules(a, d, None, 0, NoError) : a \in RuleLists, d \in RuleLists}

QStart ==
    /\ qUrl \in {Url("test.com", p) : p \in Paths}
    /\ qRules \in QRulesets
    /\ qDone = FALSE
    /\ qResult = FALSE

CallIsAllowed ==
    /\ ~qDone
    /\ qDone' = TRUE
    /\ qResult' = IsAllowed(qUrl, qRules)
    /\ UNCHANGED <<qUrl, qRules>>

(***************************************************************************)
(* RobotsParser and RobotsCompliance.                                      *)
(***************************************************************************)
Domains == {"a.com", "b.com"}

\* self._cache_ttl, in seconds
CacheTTL == 3600

\* Most clock advances in one behaviour.
MaxTicks == 2

\* The clock advances by one second or by one second less than the TTL, so
\* that cache entries of age TTL - 1, TTL and TTL + 1 all occur.
Advances == {1, CacheTTL - 1}

\* A robots.txt body is a sequence of lines; a line is blank, a comment, a
\* line without a colon, or `directive: value` as written in the file.
Directive(d, v) == [kind |-> "directive", directive |-> d, value |-> v]
CommentLine == [kind |-> "comment"]
NoColonLine == [kind |-> "nocolon"]
BlankLine == [kind |-> "blank"]

FileShop ==
    << BlankLine,
       Directive("User-agent", "*"),
       Directive("Allow", S_product),
       Directive("Disallow", S_admin),
       Directive("Crawl-delay", "2") >>

FileClosed ==
    << CommentLine,
       Directive("Crawl-Delay", "0"),
       Directive("User-agent", "googlebot"),
       Directive("Allow", S_root),
       Directive("crawl-delay", "7"),
       NoColonLine,
       Directive("USER-AGENT", "bot"),
       Directive("disallow", S_root),
       Directive("Crawl-delay", "soon") >>

RobotsFiles == {FileShop, FileClosed}

\* directive.strip().lower()
Lower(d) ==
    CASE d \in {"User-agent", "USER-AGENT", "user-agent"} -> "user-agent"
      [] d \in {"Allow", "allow"} -> "allow"
      [] d \in {"Disallow", "disallow"} -> "disallow"
      [] d \in {"Crawl-delay", "Crawl-Delay", "crawl-delay"} -> "crawl-delay"
      [] OTHER -> d

\* float(value): the number, or a ValueError. Delays are in whole seconds.
FloatOf(v) ==
    CASE v = "0" -> [ok |-> TRUE, val |-> 0]
      [] v = "2" -> [ok |-> TRUE, val |-> 2]
      [] v = "7" -> [ok |-> TRUE, val |-> 7]
      [] OTHER -> [ok |-> FALSE, val |-> 0]

ParseLineAnyAgent(st, line) ==
    IF line.kind # "directive" THEN st
    ELSE LET directive == Lower(line.directive)
             value == line.value
         IN  IF directive = "user-agent"
               THEN [st EXCEPT !.current_user_agent = value]
             ELSE IF directive = "allow"
               THEN [st EXCEPT !.rules.allow = Append(@, value)]
             ELSE IF directive = "disallow"
               THEN [st EXCEPT !.rules.disallow = Append(@, value)]
             ELSE IF directive = "crawl-delay"
               THEN IF FloatOf(value).ok
                      THEN [st EXCEPT !.rules.crawl_delay = Float(FloatOf(value).val)]
                      ELSE st
             ELSE st

\* One iteration of the loop of _parse_robots_content over a line.
ParseLine(st, line) ==
    IF line.kind # "directive" THEN st
    ELSE LET directive == Lower(line.directive)
             value == line.value
             mine == st.current_user_agent \in {"*", "bot"}
         IN  IF directive = "user-agent"
               THEN [st EXCEPT !.current_user_agent = value]
             ELSE IF directive = "allow" /\ mine
               THEN [st EXCEPT !.rules.allow = Append(@, value)]
             ELSE IF directive = "disallow" /\ mine
               THEN [st EXCEPT !.rules.disallow = Append(@, value)]
             ELSE IF directive = "crawl-delay" /\ mine
               THEN IF FloatOf(value).ok
                      THEN [st EXCEPT !.rules.crawl_delay = Float(FloatOf(value).val)]
                      ELSE st
             ELSE st

RECURSIVE ParseFrom(_, _, _)
ParseFrom(st, content, i) ==
    IF i > Len(content) THEN st
    ELSE ParseFrom(ParseLine(st, content[i]), content, i + 1)

ParseRobotsContent(content, t) ==
    ParseFrom([rules |-> Rules(<<>>, <<>>, None, t, NoError),
               current_user_agent |-> "*"], content, 1).rules

\* The lines and the longest body given to _parse_robots_content alone.
MaxLines == 4
ParseLines ==
    { BlankLine, CommentLine, NoColonLine,
      Directive("User-agent", "*"), Directive("USER-AGENT", "bot"),
      Directive("User-agent", "googlebot"),
      Directive("Allow", S_product), Directive("disallow", S_admin),
      Directive("Crawl-delay", "2"), Directive("crawl-delay", "7"),
      Directive("Crawl-Delay", "soon"), Directive("Sitemap", "2") }
ParseContents == UNION {[1..n -> ParseLines] : n \in 0..MaxLines}

\* What the server and the file system do to one fetch: the GET raises, the
\* status check raises, reading the body raises, the audit file cannot be
\* written, or all of it succeeds with the given body.
FetchErrors == {"ConnectError", "HTTPStatusError", "DecodeError", "OSError"}
Outcomes ==
    {[kind |-> k, file |-> <<>>] : k \in FetchErrors}
    \cup {[kind |-> "ok", file |-> f] : f \in RobotsFiles}

CacheEntry(t, rules) == [timestamp |-> t, rules |-> rules]

\* A cache test that still serves an entry of age exactly the TTL.
CacheFreshInclusive(c, t, domain) ==
    c[domain] # None /\ t - c[domain].timestamp <= CacheTTL

\* if domain in self._cache and time.time() - timestamp < self._cache_ttl
CacheFresh(c, t, domain) ==
    c[domain] # None /\ t - c[domain].timestamp < CacheTTL

\* The permissive default rules of the except branch.
FallbackRules(t, err) == Rules(<<S_root>>, <<>>, None, t, err)

Returned(rules, c, gets) ==
    [status |-> "return", rules |-> rules, cache |-> c, gets |-> gets]
Raised(err, c, gets) ==
    [status |-> "raise", error |-> err, cache |-> c, gets |-> gets]

\* The body of the try block of fetch_robots.
FetchTry(c, t, domain, outcome) ==
    IF outcome.kind = "ok"
    THEN LET rules == ParseRobotsContent(outcome.file, t)
         IN  Returned(rules, [c EXCEPT ![domain] = CacheEntry(t, rules)], 1)
    ELSE Raised(outcome.kind, c, 1)

\* A handler that catches httpx errors only.
FetchExceptHttpxOnly(r, t) ==
    IF r.status = "raise" /\ r.error \in {"ConnectError", "HTTPStatusError"}
    THEN Returned(FallbackRules(t, r.error), r.cache, r.gets)
    ELSE r

\* except Exception as e: return the permissive default rules
FetchExcept(r, t) ==
    IF r.status = "raise"
    THEN Returned(FallbackRules(t, r.error), r.cache, r.gets)
    ELSE r

FetchRobots(c, t, domain, outcome) ==
    IF CacheFresh(c, t, domain)
    THEN Returned(c[domain].rules, c, 0)
    ELSE FetchExcept(FetchTry(c, t, domain, outcome), t)

\* RobotsParser.get_crawl_delay
ParserCrawlDelay(robots_rules) ==
    IF ~Truthy(robots_rules) THEN 1
    ELSE IF robots_rules.crawl_delay # None THEN robots_rules.crawl_delay.val
    ELSE 1

\* ComplianceManifest as create_compliance_manifest fills it. The wall-clock
\* stamp start_ts is left out: nothing in the module reads it back.
Manifest(domain, allow, disallow, delay) ==
    [domain |-> domain, robots_etag |-> None, robots_last_modified |-> None,
     allow_paths |-> allow, disallow_paths |-> disallow, crawl_delay |-> Float(delay),
     end_ts |-> None,
     total_requests |-> 0, blocked_requests |-> 0, rate_limit_violations |-> 0]

CreateComplianceManifest(domain, robots_rules) ==
    Manifest(domain, GetAllow(robots_rules), GetDisallow(robots_rules),
             ParserCrawlDelay(robots_rules))

\* The three probe urls of check_domain.
TestUrls(domain) ==
    << Url(domain, S_product_test), Url(domain, S_reviews_test), Url(domain, S_p_test) >>

RECURSIVE CountAllowed(_, _, _)
CountAllowed(urls, robots_rules, i) ==
    IF i > Len(urls) THEN 0
    ELSE (IF IsAllowed(urls[i], robots_rules) THEN 1 ELSE 0)
         + CountAllowed(urls, robots_rules, i + 1)

\* RobotsCompliance.check_domain: the returned pair, the new cache and the
\* new manifest map; an exception of fetch_robots would pass through.
CheckDomain(c, m, t, domain, outcome) ==
    LET f == FetchRobots(c, t, domain, outcome)
    IN  IF f.status = "raise"
        THEN [status |-> "raise", cache |-> f.cache, manifests |-> m, gets |-> f.gets]
        ELSE LET manifest == CreateComplianceManifest(domain, f.rules)
                 allowed_paths == CountAllowed(TestUrls(domain), f.rules, 1)
             IN  [status |-> "return", cache |-> f.cache,
                  manifests |-> [m EXCEPT ![domain] = manifest],
                  gets |-> f.gets, rules |-> f.rules,
                  is_allowed |-> allowed_paths > 0, manifest |-> manifest]

\* RobotsCompliance.check_url: check_domain runs for a domain without a
\* manifest; the rules are read from the parser's cache whatever their age,
\* {} when the cache has no entry of the domain.
CheckUrlAlwaysChecks(c, m, t, url, domain, outcome) ==
    LET r == CheckDomain(c, m, t, domain, outcome)
        robots_rules == IF r.cache[domain] # None
                        THEN r.cache[domain].rules ELSE EmptyDict
    IN  [status |-> "return", cache |-> r.cache, manifests |-> r.manifests,
         gets |-> r.gets, checked |-> TRUE,
         robots_rules |-> robots_rules, result |-> IsAllowed(url, robots_rules)]

CheckUrl(c, m, t, url, domain, outcome) ==
    LET r == IF m[domain] = None THEN CheckDomain(c, m, t, domain, outcome)
             ELSE [status |-> "return", cache |-> c, manifests |-> m, gets |-> 0]
    IN  IF r.status = "raise"
        THEN [status |-> "raise", cache |-> r.cache, manifests |-> r.manifests,
              gets |-> r.gets, checked |-> TRUE]
        ELSE LET robots_rules == IF r.cache[domain] # None
                                 THEN r.cache[domain].rules ELSE EmptyDict
             IN  [status |-> "return", cache |-> r.cache, manifests |-> r.manifests,
                  gets |-> r.gets, checked |-> m[domain] = None,
                  robots_rules |-> robots_rules,
                  result |-> IsAllowed(url, robots_rules)]

\* `x or 1.0` on an Optional[float]: None and 0.0 are falsy.
OrOne(x) == IF x = None \/ x.val = 0 THEN 1 ELSE x.val

\* RobotsCompliance.get_crawl_delay
GetCrawlDelay(c, m, t, domain, outcome) ==
    LET r == IF m[domain] = None THEN CheckDomain(c, m, t, domain, outcome)
             ELSE [status |-> "return", cache |-> c, manifests |-> m, gets |-> 0]
    IN  IF r.status = "raise"
        THEN [status |-> "raise", cache |-> r.cache, manifests |-> r.manifests,
              gets |-> r.gets, checked |-> TRUE]
        ELSE [status |-> "return", cache |-> r.cache, manifests |-> r.manifests,
              gets |-> r.gets, checked |-> m[domain] = None,
              result |-> OrOne(r.manifests[domain].crawl_delay)]

\* The fields of ComplianceManifest that the model carries (start_ts is left
\* out of the record) and names that are attributes of every BaseModel
\* without being fields.
ManifestFields ==
    {"domain", "robots_etag", "robots_last_modified", "allow_paths", "disallow_paths",
     "crawl_delay", "end_ts", "total_requests", "blocked_requests",
     "rate_limit_violations"}
ModelMethods == {"copy", "dict", "json"}

\* hasattr(manifest, key)
HasAttr(key) == key \in ManifestFields \cup ModelMethods

\* setattr(manifest, key, value): BaseModel.__setattr__ stores a field and
\* raises ValueError for a name that is not a field.
SetAttr(manifest, key, value) ==
    IF key \in ManifestFields
    THEN [status |-> "return", manifest |-> [manifest EXCEPT ![key] = value]]
    ELSE [status |-> "raise", manifest |-> manifest]

\* for key, value in kwargs.items(): kwargs is the sequence of <<key, value>>
\* pairs in call order.
RECURSIVE UpdateFrom(_, _, _)
UpdateFrom(manifest, kwargs, i) ==
    IF i > Len(kwargs) THEN [status |-> "return", manifest |-> manifest]
    ELSE IF HasAttr(kwargs[i][1])
         THEN LET s == SetAttr(manifest, kwargs[i][1], kwargs[i][2])
              IN  IF s.status = "raise" THEN s
                  ELSE UpdateFrom(s.manifest, kwargs, i + 1)
         ELSE UpdateFrom(manifest, kwargs, i + 1)

\* RobotsCompliance.update_manifest
UpdateManifest(m, domain, kwargs) ==
    IF m[domain] # None
    THEN LET u == UpdateFrom(m[domain], kwargs, 1)
         IN  [status |-> u.status, manifests |-> [m EXCEPT ![domain] = u.manifest]]
    ELSE [status |-> "return", manifests |-> m]

\* The keyword arguments the harness passes: a counter and a name no manifest
\* has; a counter and a method name.
KwargsChoices ==
    { << <<"total_requests", 7>>, <<"pages", 3>> >>,
      << <<"copy", 1>>, <<"total_requests", 7>> >> }

\* What the environment does to the fetches of the compliance calls.
ComplianceOutcomes ==
    {[kind |-> "ConnectError", file |-> <<>>]}
    \cup {[kind |-> "ok", file |-> f] : f \in RobotsFiles}

\* The paths of the urls given to check_url.
CheckPaths == {S_product_test, S_admin_x, S_other}

(***************************************************************************)
(* AdaptiveRPS.  Rates are exact rationals <<numerator, denominator>> in   *)
(* lowest terms.                                                           *)
(***************************************************************************)
RECURSIVE Gcd(_, _)
Gcd(a, b) == IF b = 0 THEN a ELSE Gcd(b, a % b)

Rat(n, d) == LET g == Gcd(n, d) IN <<n \div g, d \div g>>
RatLeq(a, b) == a[1] * b[2] <= b[1] * a[2]
RatMax(a, b) == IF RatLeq(a, b) THEN b ELSE a
RatMin(a, b) == IF RatLeq(a, b) THEN a ELSE b
\* x / 2.0 and x * 1.2
RatHalf(a) == Rat(a[1], 2 * a[2])
RatUnchanged(a) == a
RatTimesOnePointTwo(a) == Rat(6 * a[1], 5 * a[2])

\* deque(maxlen=20)
HistoryMaxLen == 20

\* The feedback calls, the error feedbacks among them and the wait calls of
\* one behaviour.
MaxFeedback == 23
MaxErrors == 3
MaxWaits == 1

\* --rate-limit as given on the command line: below min_rps, the default,
\* above max_rps.
RateLimits == {Rat(1, 20), Rat(1, 2), Rat(5, 1)}

\* crawl_real's config: min_rps 0.1, max_rps 1.0
CliMinRps == Rat(1, 10)
CliMaxRps == Rat(1, 1)

Statuses == {200, 500, 403, 429, 503}

\* AdaptiveRPS.__init__
AdaptiveRPS(rps, min_rps, max_rps) ==
    [rps |-> rps, min_rps |-> min_rps, max_rps |-> max_rps,
     last_request |-> 0, error_history |-> <<>>]

\* status_code in (403, 429, 503)
IsError(status_code) == status_code \in {403, 429, 503}

\* deque.append on a bounded deque: the oldest entry leaves a full deque.
DequeAppend(h, x) ==
    IF Len(h) = HistoryMaxLen THEN Append(Tail(h), x) ELSE Append(h, x)

RECURSIVE SumFrom(_, _)
SumFrom(h, i) ==
    IF i > Len(h) THEN 0 ELSE (IF h[i] THEN 1 ELSE 0) + SumFrom(h, i + 1)

\* sum(self.error_history)
Sum(h) == SumFrom(h, 1)

FeedbackOnErrorOnly(self, status_code) ==
    LET h == DequeAppend(self.error_history, IsError(status_code))
    IN  IF Sum(h) >= 3 /\ IsError(status_code)
          THEN [self EXCEPT !.error_history = h,
                            !.rps = RatMax(self.min_rps, RatHalf(self.rps))]
        ELSE IF Sum(h) = 0 /\ Len(h) = HistoryMaxLen
          THEN [self EXCEPT !.error_history = h,
                            !.rps = RatMin(self.max_rps, RatTimesOnePointTwo(self.rps))]
        ELSE [self EXCEPT !.error_history = h]

\* AdaptiveRPS.feedback
Feedback(self, status_code) ==
    LET h == DequeAppend(self.error_history, IsError(status_code))
    IN  IF Sum(h) >= 3
          THEN [self EXCEPT !.error_history = h,
                            !.rps = RatMax(self.min_rps, RatHalf(self.rps))]
        ELSE IF Sum(h) = 0 /\ Len(h) = HistoryMaxLen
          THEN [self EXCEPT !.error_history = h,
                            !.rps = RatMin(self.max_rps, RatTimesOnePointTwo(self.rps))]
        ELSE [self EXCEPT !.error_history = h]

\* AdaptiveRPS.wait: sleeps, then records the time of the request.
Wait(self, t) == [self EXCEPT !.last_request = t]

(***************************************************************************)
(* RealWebCrawler.  crawl_site is one task: it awaits fetch_page for each  *)
(* url in turn, and fetch_page goes through the robots check, the wait of  *)
(* the limiter and the request.  All urls are on one domain.               *)
(***************************************************************************)
\* start_urls of crawl_site, as paths under base_url
StartUrls == << "/parfums", "/maquillage", "/soin", "/marques" >>

\* The product pages of the site and the lists extract_product_links may
\* return for a page.
ProductUrls == {"/p/1", "/p/2"}
LinkLists == { <<>>, <<"/p/1">>, <<"/p/1", "/p/2">>, <<"/p/2", "/p/1">> }

\* product_links[:5]
ProductsPerCategory == 5
FirstLinks(links) ==
    SubSeq(links, 1, IF Len(links) < ProductsPerCategory THEN Len(links)
                     ELSE ProductsPerCategory)

\* --rate-limit: the default, and 0
CrawlRateLimits == {Rat(1, 2), <<0, 1>>}

\* --max-pages
MaxPagesChoices == {1, 3, 10}

\* What rp.read() leaves in robots_cache: the set of paths can_fetch denies.
NotLoaded == [type |-> "None"]
Loaded(denied) == [type |-> "rp", denied |-> denied]
RobotPolicies == { {}, {"/soin", "/p/2"}, {"/parfums", "/maquillage", "/soin", "/marques",
                                          "/p/1", "/p/2"} }

\* The statuses the site answers with, and the error statuses of one crawl.
CrawlStatuses == {200, 500, 429}
MaxCrawlErrors == 1

\* No unbroken run of feedback has begun.
NoStreak == [kind |-> "none"]

\* No crawl is running.
NoCrawl == [pc |-> "idle"]

\* crawl_site(base_url, max_pages) up to its first loop test.
CrawlSite(max_pages) ==
    [pc |-> "start", max_pages |-> max_pages, i |-> 1, links |-> <<>>,
     url |-> "", kind |-> "", visited |-> {}, robots_cache |-> NotLoaded,
     events |-> <<>>, outcome |-> "", total_pages_visited |-> -1]

\* await self.fetch_page(url) is entered.
EnterFetch(c, url, kind) ==
    [c EXCEPT !.pc = "robots", !.url = url, !.kind = kind, !.events = <<>>,
              !.outcome = ""]

\* fetch_page returned page_data (got = TRUE) or None to crawl_site, which
\* goes on to its next loop test.
ReturnToCrawl(c, got, links, outcome) ==
    IF c.kind = "start"
    THEN IF got
         THEN [c EXCEPT !.pc = "product", !.visited = @ \cup {c.url},
                        !.links = FirstLinks(links), !.outcome = outcome]
         ELSE [c EXCEPT !.pc = "start", !.i = @ + 1, !.outcome = outcome]
    ELSE IF got
         THEN [c EXCEPT !.pc = "product", !.visited = @ \cup {c.url},
                        !.links = Tail(@), !.outcome = outcome]
         ELSE [c EXCEPT !.pc = "product", !.links = Tail(@), !.outcome = outcome]

AIdle ==
    /\ limiter = AdaptiveRPS(Rat(1, 2), CliMinRps, CliMaxRps)
    /\ aNow = 0
    /\ fed = 0
    /\ errs = 0
    /\ lastStatus = 0
    /\ crawl = NoCrawl
    /\ streak = NoStreak

\* RealWebCrawler.__init__ with the config crawl_real builds.
AStart ==
    /\ \E r \in RateLimits : limiter = AdaptiveRPS(r, CliMinRps, CliMaxRps)
    /\ aNow = 0
    /\ fed = 0
    /\ errs = 0
    /\ lastStatus = 0
    /\ crawl = NoCrawl
    /\ streak = NoStreak

FeedbackCall ==
    \E status_code \in Statuses :
        /\ fed < MaxFeedback
        /\ IsError(status_code) => errs < MaxErrors
        /\ limiter' = Feedback(limiter, status_code)
        /\ fed' = fed + 1
        /\ errs' = errs + (IF IsError(status_code) THEN 1 ELSE 0)
        /\ lastStatus' = status_code
        /\ UNCHANGED <<aNow, crawl, streak>>

WaitCall ==
    /\ aNow < MaxWaits
    /\ aNow' = aNow + 1
    /\ limiter' = Wait(limiter, aNow')
    /\ UNCHANGED <<fed, errs, lastStatus, crawl, streak>>

\* A burst of responses without a wait in between: each is a 200 or a 429.
MaxBurst == 6
BurstStatuses == {200, 429}

BurstFeedback ==
    \E status_code \in BurstStatuses :
        /\ fed < MaxBurst
        /\ limiter' = Feedback(limiter, status_code)
        /\ fed' = fed + 1
        /\ errs' = errs + (IF IsError(status_code) THEN 1 ELSE 0)
        /\ lastStatus' = status_code
        /\ UNCHANGED <<aNow, crawl, streak>>

\* The feedback calls made before an unbroken run of like feedback begins.
MaxPrefix == 3

\* The limiters the runs start from: AdaptiveRPS(rps, min_rps, max_rps) with
\* the default rate, max_rps, a rate above max_rps and the rate 0. With
\* min_rps 1/8 and 1/4 the way from min_rps up to max_rps is 12 and 8 steps
\* of * 1.2, whose exact values stay within 32-bit integers.
StreakLimiters ==
    {AdaptiveRPS(r, Rat(1, 8), CliMaxRps) : r \in {Rat(1, 2), Rat(1, 1), Rat(5, 1)}}
    \cup {AdaptiveRPS(<<0, 1>>, Rat(1, 4), CliMaxRps)}

\* The statuses of a run: none of them in (403, 429, 503), or all of them.
StreakStatuses(kind) ==
    IF kind = "error" THEN {s \in Statuses : IsError(s)}
    ELSE {s \in Statuses : ~IsError(s)}

SStart ==
    /\ limiter \in StreakLimiters
    /\ aNow = 0
    /\ fed = 0
    /\ errs = 0
    /\ lastStatus = 0
    /\ crawl = NoCrawl
    /\ streak = NoStreak

\* feedback(status_code) before the run, with any status.
StreakPrefix ==
    /\ streak.kind = "none"
    /\ fed < MaxPrefix
    /\ \E status_code \in BurstStatuses :
        /\ limiter' = Feedback(limiter, status_code)
        /\ fed' = fed + 1
        /\ errs' = errs + (IF IsError(status_code) THEN 1 ELSE 0)
        /\ lastStatus' = status_code
    /\ UNCHANGED <<aNow, crawl, streak>>

\* From here on the server answers with statuses of one kind only.
StreakBegins ==
    /\ streak.kind = "none"
    /\ \E kind \in {"clean", "error"} :
        streak' = [kind |-> kind, from |-> limiter.rps]
    /\ UNCHANGED <<limiter, aNow, fed, errs, lastStatus, crawl>>

\* feedback(status_code) within the run.
StreakFeedback ==
    /\ streak.kind # "none"
    /\ \E status_code \in StreakStatuses(streak.kind) :
        /\ limiter' = Feedback(limiter, status_code)
        /\ lastStatus' = status_code
    /\ UNCHANGED <<aNow, fed, errs, crawl, streak>>

\* for start_url in start_urls: the budget test, then fetch_page(start_url);
\* after the loop the result dict is returned.
NextStartUrl ==
    /\ crawl.pc = "start"
    /\ crawl' = IF crawl.i > Len(StartUrls)
                   \/ Cardinality(crawl.visited) >= crawl.max_pages
                THEN [crawl EXCEPT !.pc = "done",
                                   !.total_pages_visited = Cardinality(crawl.visited)]
                ELSE EnterFetch(crawl, StartUrls[crawl.i], "start")
    /\ UNCHANGED <<limiter, aNow, fed, errs, lastStatus, streak>>

\* for product_url in product_links[:5]: a visited url is skipped, another is
\* fetched; after the last one the outer loop goes on.
NextProductUrl ==
    /\ crawl.pc = "product"
    /\ crawl' = IF crawl.links = <<>>
                THEN [crawl EXCEPT !.pc = "start", !.i = @ + 1]
                ELSE IF Head(crawl.links) \in crawl.visited
                THEN [crawl EXCEPT !.links = Tail(@)]
                ELSE EnterFetch(crawl, Head(crawl.links), "product")
    /\ UNCHANGED <<limiter, aNow, fed, errs, lastStatus, streak>>

\* fetch_page: check_robots_txt. rp.read() runs when the domain is not in
\* robots_cache; when it raises, check_robots_txt answers False and caches
\* nothing. A False answer makes fetch_page return None.
CheckRobotsTxt ==
    /\ crawl.pc = "robots"
    /\ \E read \in {NotLoaded} \cup {Loaded(d) : d \in RobotPolicies} :
          LET rp == IF crawl.robots_cache # NotLoaded THEN crawl.robots_cache
                    ELSE read
              can_fetch == rp # NotLoaded /\ crawl.url \notin rp.denied
              c == [crawl EXCEPT !.robots_cache = rp, !.events = Append(@, "robots")]
          IN  crawl' = IF can_fetch THEN [c EXCEPT !.pc = "wait"]
                       ELSE ReturnToCrawl(c, FALSE, <<>>,
                                          IF rp = NotLoaded THEN "robots_failed"
                                          ELSE "disallowed")
    /\ UNCHANGED <<limiter, aNow, fed, errs, lastStatus, streak>>

\* fetch_page: self.rate_limiter.wait(). With rps = 0 the division 1.0 / rps
\* raises ZeroDivisionError before the sleep, and `except Exception` of
\* fetch_page returns None.
RateLimiterWait ==
    /\ crawl.pc = "wait"
    /\ IF limiter.rps[1] = 0
       THEN /\ crawl' = ReturnToCrawl([crawl EXCEPT !.events = Append(@, "wait")],
                                      FALSE, <<>>, "wait_raised")
            /\ UNCHANGED <<limiter, aNow>>
       ELSE /\ aNow' = aNow + 1
            /\ limiter' = Wait(limiter, aNow')
            /\ crawl' = [crawl EXCEPT !.pc = "get", !.events = Append(@, "wait")]
    /\ UNCHANGED <<fed, errs, lastStatus, streak>>

\* fetch_page: the request times out or fails before a response, and the
\* except blocks return None.
RequestFails ==
    /\ crawl.pc = "get"
    /\ \E e \in {"timeout", "client_error"} :
          crawl' = ReturnToCrawl([crawl EXCEPT !.events = Append(@, "get")],
                                 FALSE, <<>>, e)
    /\ UNCHANGED <<limiter, aNow, fed, errs, lastStatus, streak>>

\* fetch_page: a response arrives, feedback(response.status) is called, and
\* a 200 gives the page while any other status gives None.
RequestAnswered ==
    /\ crawl.pc = "get"
    /\ \E status \in CrawlStatuses, links \in LinkLists :
          /\ IsError(status) => errs < MaxCrawlErrors
          /\ status # 200 => links = <<>>
          /\ crawl.kind = "product" => links = <<>>
          /\ limiter' = Feedback(limiter, status)
          /\ fed' = fed + 1
          /\ errs' = errs + (IF IsError(status) THEN 1 ELSE 0)
          /\ lastStatus' = status
          /\ crawl' = ReturnToCrawl(
                         [crawl EXCEPT !.events = @ \o <<"get", "feedback">>],
                         status = 200, links, "response")
    /\ UNCHANGED <<aNow, streak>>

\* RealWebCrawler(config) as crawl_real builds it, and crawl_site entered.
KStart ==
    /\ \E r \in CrawlRateLimits : limiter = AdaptiveRPS(r, CliMinRps, CliMaxRps)
    /\ aNow = 0
    /\ fed = 0
    /\ errs = 0
    /\ lastStatus = 0
    /\ \E max_pages \in MaxPagesChoices : crawl = CrawlSite(max_pages)
    /\ streak = NoStreak

(***************************************************************************)
(* IntegrityChecker.  The silver layer is three parquet files; a file is   *)
(* present or not, has a set of columns, and holds rows.  Rows that agree  *)
(* on every column are written once with their number n.                   *)
(***************************************************************************)
\* SQL NULL in a text column and in a numeric column.
Null == "NULL"
NullNum == -1

AUrl == "https://www.sephora.fr/p/1"
ATs == "2025-01-01T00:00:00"

ProductColumns == {"product_id", "brand", "name", "price_value", "source_url",
                   "scrape_ts", "refillable_flag", "refill_evidence"}
ReviewColumns == {"rating", "text", "source_url", "scrape_ts"}
ManifestColumns == {"site", "robots_etag", "robots_path", "total_requests",
                    "blocked_requests"}

Table(columns, rows) == [exists |-> TRUE, columns |-> columns, rows |-> rows]
MissingFile == [exists |-> FALSE, columns |-> {}, rows |-> <<>>]

\* n products of one brand at one price (in cents). refill_evidence is a
\* list column: Null, "[]" (empty list) or "[badge]".
PRow(n, brand, price_value, source_url, scrape_ts, refillable_flag, refill_evidence, is_fixture) ==
    [n |-> n, brand |-> brand, price_value |-> price_value,
     source_url |-> source_url, scrape_ts |-> scrape_ts,
     refillable_flag |-> refillable_flag,
     refill_evidence |-> refill_evidence, is_fixture |-> is_fixture]

Product(n, brand, price_value) ==
    PRow(n, brand, price_value, AUrl, ATs, FALSE, "[]", FALSE)

\* n reviews of one rating; every text of the group occurs `copies` times,
\* and texts of different groups differ.
RRow(n, rating, copies, source_url, scrape_ts, is_fixture) ==
    [n |-> n, rating |-> rating, copies |-> copies, source_url |-> source_url,
     scrape_ts |-> scrape_ts, is_fixture |-> is_fixture]

Review(n, rating, copies) == RRow(n, rating, copies, AUrl, ATs, FALSE)

MRow(site, robots_etag, robots_path, total_requests) ==
    [n |-> 1, site |-> site, robots_etag |-> robots_etag,
     robots_path |-> robots_path, total_requests |-> total_requests]

\* The brands the luxury check names, and the brands the rows use.
LuxuryBrands == {"Chanel", "Parfums Christian Dior", "Guerlain", "Hermès",
                 "Givenchy", "Maison Francis Kurkdjian", "Acqua di Parma",
                 "Tom Ford Beauty", "La Mer", "Jo Malone London", "Le Labo",
                 "By Kilian", "Yves Saint Laurent", "Lancôme", "Armani Beauty",
                 "Valentino Beauty", "Burberry Beauty", "Chloé"}
\* The brands of the rows that match the regular expression ^Brand_[0-9]+$.
GeneratedBrands == {"Brand_0", "Brand_17"}

GoodProducts ==
    << Product(1, "Chanel", 1000),
       PRow(1, "Chanel", 2300, AUrl, ATs, TRUE, "[badge]", FALSE),
       Product(1, "Nivea", 3100),
       Product(1, "Nivea", 5800) >>

ProductTables ==
    { MissingFile,
      Table(ProductColumns, GoodProducts),
      Table(ProductColumns, <<>>),
      Table(ProductColumns, <<Product(1, "Chanel", 1000)>>),
      Table(ProductColumns,
            GoodProducts \o <<PRow(1, "Nivea", 900, Null, ATs, FALSE, "[]", FALSE)>>),
      Table(ProductColumns,
            GoodProducts \o <<PRow(2, "Nivea", 900, AUrl, Null, FALSE, "[]", FALSE),
                              PRow(1, "Nivea", 950, Null, Null, FALSE, "[]", FALSE)>>),
      Table(ProductColumns \ {"scrape_ts"},
            GoodProducts \o <<PRow(1, "Nivea", 900, Null, Null, FALSE, "[]", FALSE)>>),
      Table(ProductColumns \ {"product_id"}, GoodProducts),
      Table(ProductColumns,
            GoodProducts \o <<PRow(1, "Nivea", 900, AUrl, ATs, TRUE, "[]", FALSE),
                              PRow(1, "Nivea", 950, AUrl, ATs, TRUE, Null, FALSE)>>),
      Table(ProductColumns \cup {"is_fixture"},
            GoodProducts \o <<PRow(2, "Nivea", 900, AUrl, ATs, FALSE, "[]", TRUE)>>),
      Table(ProductColumns \cup {"is_fixture"}, GoodProducts),
      Table(ProductColumns, GoodProducts \o <<Product(20, "Guerlain", 9900)>>),
      Table(ProductColumns,
            GoodProducts \o <<Product(6, "Guerlain", 9900),
                              Product(6, "Guerlain", 9950)>>),
      Table(ProductColumns,
            << Product(1, "Chanel", 1000), Product(1, "Chanel", 2000),
               Product(1, "Nivea", 3000), Product(1, "Nivea", 4000) >>),
      Table(ProductColumns,
            << Product(10, "Brand_0", 500), Product(1, "Brand_17", 700),
               Product(1, "Brand_x", NullNum) >>) }

GoodReviews == << Review(18, 5, 1), Review(2, 4, 2) >>

ReviewTables ==
    { MissingFile,
      Table(ReviewColumns, GoodReviews),
      Table(ReviewColumns, <<>>),
      Table(ReviewColumns, <<Review(3, 5, 1)>>),
      Table(ReviewColumns, <<Review(4, 5, 2)>>),
      Table(ReviewColumns, GoodReviews \o <<Review(1, 6, 1)>>),
      Table(ReviewColumns, GoodReviews \o <<Review(1, NullNum, 1)>>),
      Table(ReviewColumns, << Review(3998, 5, 1), Review(2, 4, 2), Review(1, 0, 1) >>),
      Table(ReviewColumns,
            GoodReviews \o <<RRow(1, 5, 1, Null, ATs, FALSE)>>),
      Table(ReviewColumns \ {"source_url"},
            GoodReviews \o <<RRow(1, 5, 1, Null, ATs, FALSE)>>),
      Table(ReviewColumns \cup {"is_fixture"},
            GoodReviews \o <<RRow(1, 5, 1, AUrl, ATs, TRUE)>>) }

ManifestTables ==
    { MissingFile,
      Table(ManifestColumns, <<MRow("sephora", "etag", "robots.txt", 100)>>),
      Table(ManifestColumns,
            << MRow("sephora", Null, "robots.txt", 100),
               MRow("marionnaud", Null, Null, 100),
               MRow("sephora", "etag", Null, 100) >>),
      Table(ManifestColumns, <<MRow("sephora", "etag", "robots.txt", 5)>>),
      Table(ManifestColumns \ {"robots_etag"},
            <<MRow("sephora", Null, "robots.txt", 100)>>) }

\* What DuckDB does with a list column compared to the text '[]' or '': it
\* raises (no such comparison, or '' is no list), or it compares the list as
\* text. One installation does one of the two.
ListTextComparisons == {"raises", "compares"}

Silver(products, reviews, manifest_runs, list_text, writable) ==
    [products |-> products, reviews |-> reviews,
     manifest_runs |-> manifest_runs, list_text |-> list_text,
     writable |-> writable]

\* A silver layer that passes every check.
CleanSilver ==
    Silver(Table(ProductColumns, GoodProducts), Table(ReviewColumns, GoodReviews),
           Table(ManifestColumns, <<MRow("sephora", "etag", "robots.txt", 100)>>),
           "compares", TRUE)

SilverLayers ==
    { Silver(p, r, m, l, w) : p \in ProductTables, r \in ReviewTables,
                              m \in ManifestTables, l \in ListTextComparisons,
                              w \in BOOLEAN }

\* read_parquet of a present file that has the columns the query names;
\* anything else makes con.execute raise.
Readable(t, columns) == t.exists /\ columns \subseteq t.columns

RECURSIVE CountFrom(_, _)
CountFrom(rows, i) ==
    IF i > Len(rows) THEN 0 ELSE rows[i].n + CountFrom(rows, i + 1)

\* COUNT(*)
Count(rows) == CountFrom(rows, 1)

\* A violation message: the check that wrote it, its wording, and the names
\* and numbers the f-string puts in.
Violation(check, kind, subject, a, b) ==
    [check |-> check, kind |-> kind, subject |-> subject, a |-> a, b |-> b]

\* The message an except block writes; its text is that of the exception.
ErrorViolation(check) == Violation(check, "error", "", 0, 0)

\* What the body of a try block did: it recorded `out`, or it raised.
Ok(out) == [exc |-> FALSE, out |-> out, size |-> 0]
Exc == [exc |-> TRUE, out |-> <<>>, size |-> 0]

\* The except block of a check: the messages it appends.
Appends(check) == <<ErrorViolation(check)>>
LogsOnly == <<>>

IfPositive(n, v) == IF n > 0 THEN <<v>> ELSE <<>>

\* check_file_existence
FileExistenceBody(s) ==
    Ok((IF ~s.products.exists
        THEN <<Violation("file_existence", "Missing required file", "products", 0, 0)>>
        ELSE <<>>)
       \o
       (IF ~s.reviews.exists
        THEN <<Violation("file_existence", "Missing required file", "reviews", 0, 0)>>
        ELSE <<>>))

\* The rows the provenance query counts when it counts only null source urls.
MissingCoreUrlOnly(rows) == SelectSeq(rows, LAMBDA r : r.source_url = Null)

\* WHERE source_url IS NULL OR scrape_ts IS NULL
MissingCore(rows) ==
    SelectSeq(rows, LAMBDA r : r.source_url = Null \/ r.scrape_ts = Null)

\* check_provenance_gates, one table
ProvenanceBody(t, check, name) ==
    IF ~Readable(t, {"source_url", "scrape_ts"}) THEN Exc
    ELSE LET missing_core == Count(MissingCore(t.rows))
         IN  Ok(IfPositive(missing_core,
                    Violation(check, "missing core provenance", name, missing_core, 0)))

\* refillable_flag = true AND (refill_evidence IS NULL OR it is empty)
WithoutEvidence(rows) ==
    SelectSeq(rows, LAMBDA r : r.refillable_flag /\ r.refill_evidence \in {Null, "[]"})

\* check_refillable_evidence
RefillableEvidenceBody(s) ==
    IF ~Readable(s.products, {"refillable_flag", "refill_evidence"}) THEN Exc
    ELSE LET invalid_count == Count(WithoutEvidence(s.products.rows))
         IN  Ok(IfPositive(invalid_count,
                    Violation("refillable_evidence", "Refillable products without evidence",
                              "", invalid_count, 0)))

\* The values of one column in the order of their first row.
RECURSIVE SitesFrom(_, _, _)
SitesFrom(rows, i, seen) ==
    IF i > Len(rows) THEN <<>>
    ELSE IF rows[i].site \in seen THEN SitesFrom(rows, i + 1, seen)
         ELSE <<rows[i].site>> \o SitesFrom(rows, i + 1, seen \cup {rows[i].site})

\* check_robots_provenance, the query and the loop over its rows
RobotsProvenanceBody(s) ==
    IF ~Readable(s.manifest_runs, {"site", "robots_etag", "robots_path"}) THEN Exc
    ELSE LET missing == SelectSeq(s.manifest_runs.rows,
                            LAMBDA r : r.robots_etag = Null \/ r.robots_path = Null)
             sites == SitesFrom(missing, 1, {})
         IN  Ok([k \in 1..Len(sites) |->
                    Violation("robots_provenance", "missing robots provenance", sites[k],
                              Count(SelectSeq(missing, LAMBDA r : r.site = sites[k])), 0)])

\* 1) brand ~ '^Brand_[0-9]+$'
BrandPatternBody(s) ==
    IF ~Readable(s.products, {"brand"}) THEN Exc
    ELSE LET synthetic_brands ==
                 Count(SelectSeq(s.products.rows, LAMBDA r : r.brand \in GeneratedBrands))
         IN  Ok(IfPositive(synthetic_brands,
                    Violation("brand_pattern", "synthetic brand names", "",
                              synthetic_brands, 0)))

\* 2) brand IN (luxury brands)
LuxuryBody(s) ==
    IF ~Readable(s.products, {"brand"}) THEN Exc
    ELSE LET luxury_count ==
                 Count(SelectSeq(s.products.rows, LAMBDA r : r.brand \in LuxuryBrands))
         IN  Ok(IF luxury_count = 0
                THEN <<Violation("luxury_overlap", "No luxury brands found", "", 0, 0)>>
                ELSE <<>>)

\* SELECT DISTINCT price_value ... WHERE price_value IS NOT NULL
DistinctPrices(rows) == {rows[i].price_value : i \in 1..Len(rows)} \ {NullNum}

\* LEAD(price_value) - price_value over the sorted distinct prices; prices
\* are whole cents, so ROUND(gap, 2) changes nothing.
Gaps(prices) ==
    {q - p : <<p, q>> \in {pq \in prices \X prices :
                               /\ pq[1] < pq[2]
                               /\ ~\E r \in prices : pq[1] < r /\ r < pq[2]}}

\* 3) price gap uniformity
PriceGapBody(s) ==
    IF ~Readable(s.products, {"price_value"}) THEN Exc
    ELSE LET distinct_gaps == Cardinality(Gaps(DistinctPrices(s.products.rows)))
         IN  Ok(IF distinct_gaps <= 1
                THEN <<Violation("price_gaps", "Price gaps too uniform", "",
                                 distinct_gaps, 0)>>
                ELSE <<>>)

RECURSIVE PairsFrom(_, _)
PairsFrom(rows, i) ==
    IF i > Len(rows) THEN 0
    ELSE (rows[i].n \div rows[i].copies) + PairsFrom(rows, i + 1)

\* 4) review duplication. SUM over no group is NULL, and None / total_reviews
\* raises TypeError; the percentage is kept in tenths, as {:.1f} prints it.
ReviewDuplicationBody(s) ==
    IF ~Readable(s.reviews, {"rating", "text"}) THEN Exc
    ELSE LET dup_check == SelectSeq(s.reviews.rows, LAMBDA r : r.copies > 1)
             total_duplicates == Count(dup_check)
             duplicate_pairs == PairsFrom(dup_check, 1)
             total_reviews == Count(s.reviews.rows)
         IN  IF total_reviews = 0 THEN Ok(<<>>)
             ELSE IF dup_check = <<>> THEN Exc
             ELSE Ok(IF total_duplicates * 100 > 10 * total_reviews
                     THEN <<Violation("review_duplication", "High review duplication", "",
                                (2000 * total_duplicates + total_reviews)
                                    \div (2 * total_reviews),
                                duplicate_pairs)>>
                     ELSE <<>>)

\* 5) refill_evidence = '[]' OR refill_evidence = ''
RefillIntegrityBody(s) ==
    IF ~Readable(s.products, {"refillable_flag", "refill_evidence"}) THEN Exc
    ELSE IF s.list_text = "raises" THEN Exc
    ELSE LET invalid_refill == Count(WithoutEvidence(s.products.rows))
         IN  Ok(IfPositive(invalid_refill,
                    Violation("refill_integrity", "refillable products without evidence",
                              "", invalid_refill, 0)))

\* 6) manifest plausibility: one message per manifest row with fewer than
\* two requests per product.
ManifestBody(s) ==
    IF ~(Readable(s.manifest_runs, {"site", "total_requests", "blocked_requests"})
         /\ s.products.exists /\ s.reviews.exists) THEN Exc
    ELSE LET product_count == Count(s.products.rows)
             implausible == SelectSeq(s.manifest_runs.rows,
                                LAMBDA r : r.total_requests < product_count * 2)
         IN  Ok([k \in 1..Len(implausible) |->
                    Violation("manifest_plausibility", "Manifest implausible", "",
                              implausible[k].total_requests, product_count)])

\* ROUND(AVG(CASE WHEN rating BETWEEN 1 AND 5 THEN 1.0 ELSE 0.0 END), 3),
\* in thousandths; -1 stands for the NaN of an empty table.
RatingInBounds(rows) ==
    LET total == Count(rows)
        inside == Count(SelectSeq(rows, LAMBDA r : r.rating >= 1 /\ r.rating <= 5))
    IN  IF total = 0 THEN -1 ELSE (2000 * inside + total) \div (2 * total)

\* 7) rating bounds
RatingBoundsBody(s) ==
    IF ~Readable(s.reviews, {"rating"}) THEN Exc
    ELSE LET rating_in_bounds == RatingInBounds(s.reviews.rows)
         IN  Ok(IF rating_in_bounds = 1000 THEN <<>>
                ELSE <<Violation("rating_bounds", "Invalid ratings found", "",
                                 rating_in_bounds, 0)>>)

RECURSIVE BrandsFrom(_, _, _)
BrandsFrom(rows, i, seen) ==
    IF i > Len(rows) THEN <<>>
    ELSE IF rows[i].brand \in seen THEN BrandsFrom(rows, i + 1, seen)
         ELSE <<rows[i].brand>> \o BrandsFrom(rows, i + 1, seen \cup {rows[i].brand})

SetMin(S) == CHOOSE x \in S : \A y \in S : x <= y
SetMax(S) == CHOOSE x \in S : \A y \in S : x >= y

\* One row of the GROUP BY brand: n, MIN, MAX and COUNT(DISTINCT price_value);
\* MIN and MAX of no price are NullNum.
BrandStats(rows, brand) ==
    LET mine == SelectSeq(rows, LAMBDA r : r.brand = brand)
        prices == DistinctPrices(mine)
    IN  [brand |-> brand, n |-> Count(mine),
         pmin |-> IF prices = {} THEN NullNum ELSE SetMin(prices),
         pmax |-> IF prices = {} THEN NullNum ELSE SetMax(prices),
         price_levels |-> Cardinality(prices)]

\* ORDER BY price_levels ASC, n DESC
Before(x, y) ==
    \/ x.price_levels < y.price_levels
    \/ x.price_levels = y.price_levels /\ x.n > y.n

RECURSIVE OrderBy(_)
OrderBy(stats) ==
    IF stats = <<>> THEN <<>>
    ELSE LET k == CHOOSE i \in 1..Len(stats) :
                      \A j \in 1..Len(stats) :
                          j # i => (Before(stats[i], stats[j])
                                    \/ (~Before(stats[j], stats[i]) /\ i < j))
             rest == [j \in 1..(Len(stats) - 1) |->
                          IF j < k THEN stats[j] ELSE stats[j + 1]]
         IN  <<stats[k]>> \o OrderBy(rest)

PriceStats(rows) ==
    LET brands == BrandsFrom(rows, 1, {})
        all == [k \in 1..Len(brands) |-> BrandStats(rows, brands[k])]
    IN  OrderBy(SelectSeq(all, LAMBDA g : g.n >= 10))

\* The two tests of check_price_sanity on one brand.
PriceSanityRow(row) ==
    (IF row.price_levels <= 2 /\ row.n >= 20
     THEN <<Violation("price_sanity", "suspiciously few price levels", row.brand,
                      row.price_levels, row.n)>>
     ELSE <<>>)
    \o
    (IF row.pmin # NullNum /\ row.pmin = row.pmax /\ row.n >= 10
     THEN <<Violation("price_sanity", "identical min/max prices", row.brand,
                      row.pmin, 0)>>
     ELSE <<>>)

RECURSIVE PriceSanityFrom(_, _)
PriceSanityFrom(stats, i) ==
    IF i > Len(stats) THEN <<>>
    ELSE PriceSanityRow(stats[i]) \o PriceSanityFrom(stats, i + 1)

\* check_price_sanity
PriceSanityBody(s) ==
    IF ~Readable(s.products, {"brand", "price_value"}) THEN Exc
    ELSE Ok(PriceSanityFrom(PriceStats(s.products.rows), 1))

\* check_fixture_contamination, one table
FixtureBody(t, check, name) ==
    IF ~Readable(t, {"is_fixture"}) THEN Exc
    ELSE LET fixture_count == Count(SelectSeq(t.rows, LAMBDA r : r.is_fixture))
         IN  Ok(IfPositive(fixture_count,
                    Violation(check, "Fixture contamination", name, fixture_count, 0)))

AuditLimit == 20

\* The rows the audit query draws from: WHERE source_url IS NOT NULL. With at
\* most 20 of them, ORDER BY RANDOM() LIMIT 20 returns them all.
AuditCandidates(s) == SelectSeq(s.products.rows, LAMBDA r : r.source_url # Null)

\* generate_audit_sample: up to 20 products that have a source url, written
\* to data/silver/audit_sample.json.
AuditSampleBody(s) ==
    IF ~(Readable(s.products, {"product_id", "brand", "name", "price_value",
                               "source_url", "scrape_ts"}) /\ s.writable) THEN Exc
    ELSE LET with_url == Count(SelectSeq(s.products.rows, LAMBDA r : r.source_url # Null))
         IN  [exc |-> FALSE, out |-> <<>>,
              size |-> IF with_url < AuditLimit THEN with_url ELSE AuditLimit]

\* The checks in the order run_integrity_check runs them.
AllChecks ==
    << "file_existence", "provenance_products", "provenance_reviews",
       "refillable_evidence", "robots_provenance", "brand_pattern",
       "luxury_overlap", "price_gaps", "review_duplication", "refill_integrity",
       "manifest_plausibility", "rating_bounds", "price_sanity",
       "fixture_products", "fixture_reviews", "audit_sample" >>

\* The state of one run: the instance's list, the checks run so far, those
\* in which an exception was raised, and whether an exception is in flight.
Running(self_violations) ==
    [violations |-> self_violations, ran |-> <<>>, raised |-> {},
     status |-> "running", audit_sample_size |-> 0]

\* A try block whose except block lets the exception go on.
GuardedPropagates(rs, check, body, handler) ==
    IF rs.status # "running" THEN rs
    ELSE IF body.exc
         THEN [rs EXCEPT !.ran = Append(@, check), !.raised = @ \cup {check},
                         !.status = "raise"]
         ELSE [rs EXCEPT !.violations = @ \o body.out, !.ran = Append(@, check),
                         !.audit_sample_size = body.size]

\* try: body / except Exception: handler
Guarded(rs, check, body, handler) ==
    IF rs.status # "running" THEN rs
    ELSE IF body.exc
         THEN [rs EXCEPT !.violations = @ \o handler, !.ran = Append(@, check),
                         !.raised = @ \cup {check}]
         ELSE [rs EXCEPT !.violations = @ \o body.out, !.ran = Append(@, check),
                         !.audit_sample_size = body.size]

\* A body outside any try block.
Unguarded(rs, check, body) ==
    IF rs.status # "running" THEN rs
    ELSE IF body.exc
         THEN [rs EXCEPT !.ran = Append(@, check), !.raised = @ \cup {check},
                         !.status = "raise"]
         ELSE [rs EXCEPT !.violations = @ \o body.out, !.ran = Append(@, check)]

CheckFileExistence(rs, s) == Unguarded(rs, "file_existence", FileExistenceBody(s))

CheckProvenanceGates(rs, s) ==
    LET products == Guarded(rs, "provenance_products",
                        ProvenanceBody(s.products, "provenance_products", "Products"),
                        Appends("provenance_products"))
    IN  Guarded(products, "provenance_reviews",
                ProvenanceBody(s.reviews, "provenance_reviews", "Reviews"),
                Appends("provenance_reviews"))

CheckRefillableEvidence(rs, s) ==
    Guarded(rs, "refillable_evidence", RefillableEvidenceBody(s),
            Appends("refillable_evidence"))

CheckRobotsProvenance(rs, s) ==
    IF ~s.manifest_runs.exists
    THEN Unguarded(rs, "robots_provenance",
             Ok(<<Violation("robots_provenance", "Missing manifest_runs.parquet", "", 0, 0)>>))
    ELSE Guarded(rs, "robots_provenance", RobotsProvenanceBody(s),
                 Appends("robots_provenance"))

CheckSyntheticIndicators(rs, s) ==
    LET r1 == Guarded(rs, "brand_pattern", BrandPatternBody(s), Appends("brand_pattern"))
        r2 == Guarded(r1, "luxury_overlap", LuxuryBody(s), Appends("luxury_overlap"))
        r3 == Guarded(r2, "price_gaps", PriceGapBody(s), Appends("price_gaps"))
        r4 == Guarded(r3, "review_duplication", ReviewDuplicationBody(s),
                      Appends("review_duplication"))
        r5 == Guarded(r4, "refill_integrity", RefillIntegrityBody(s),
                      Appends("refill_integrity"))
        r6 == Guarded(r5, "manifest_plausibility", ManifestBody(s),
                      Appends("manifest_plausibility"))
    IN  Guarded(r6, "rating_bounds", RatingBoundsBody(s), Appends("rating_bounds"))

CheckPriceSanity(rs, s) ==
    Guarded(rs, "price_sanity", PriceSanityBody(s), Appends("price_sanity"))

CheckFixtureContamination(rs, s) ==
    LET products == Guarded(rs, "fixture_products",
                        FixtureBody(s.products, "fixture_products", "products"), LogsOnly)
    IN  Guarded(products, "fixture_reviews",
                FixtureBody(s.reviews, "fixture_reviews", "reviews"), LogsOnly)

GenerateAuditSample(rs, s) ==
    Guarded(rs, "audit_sample", AuditSampleBody(s), Appends("audit_sample"))

\* A report whose status forgives a single violation.
ReportForgiving(self_violations, audit_sample_size) ==
    [type |-> "report", total_violations |-> Len(self_violations),
     violations |-> self_violations, audit_sample_size |-> audit_sample_size,
     status |-> IF Len(self_violations) <= 1 THEN "PASS" ELSE "FAIL"]

\* The report dict, without its timestamp.
Report(self_violations, audit_sample_size) ==
    [type |-> "report", total_violations |-> Len(self_violations),
     violations |-> self_violations, audit_sample_size |-> audit_sample_size,
     status |-> IF Len(self_violations) = 0 THEN "PASS" ELSE "FAIL"]

\* run_integrity_check on an instance whose list is `violations`. Writing
\* integrity_report.json is outside every try block.
RunIntegrityCheck(self_violations, s) ==
    LET r1 == CheckFileExistence(Running(self_violations), s)
        r2 == CheckProvenanceGates(r1, s)
        r3 == CheckRefillableEvidence(r2, s)
        r4 == CheckRobotsProvenance(r3, s)
        r5 == CheckSyntheticIndicators(r4, s)
        r6 == CheckPriceSanity(r5, s)
        r7 == CheckFixtureContamination(r6, s)
        r8 == GenerateAuditSample(r7, s)
    IN  IF r8.status = "running" /\ s.writable
        THEN [r8 EXCEPT !.status = "return"]
        ELSE [r8 EXCEPT !.status = "raise"]

\* Runs of run_integrity_check the model follows.
MaxRuns == 2

\* No audit has run: IntegrityChecker.__init__ on a clean silver layer.
IIdle ==
    /\ silver = CleanSilver
    /\ violations = <<>>
    /\ runs = 0
    /\ reports = <<>>
    /\ icall = [op |-> "none"]

\* IntegrityChecker.__init__, on any of the silver layers.
IStart ==
    /\ silver \in SilverLayers
    /\ violations = <<>>
    /\ runs = 0
    /\ reports = <<>>
    /\ icall = [op |-> "none"]

\* checker.run_integrity_check(); `reports` keeps the reports returned
\* against the present silver layer.
RunIntegrityCheckCall ==
    /\ runs < MaxRuns
    /\ \E r \in {RunIntegrityCheck(violations, silver)} :
        LET report == IF r.status = "return"
                      THEN Report(r.violations, r.audit_sample_size) ELSE None
        IN  /\ violations' = r.violations
            /\ reports' = IF r.status = "return" THEN Append(reports, report)
                          ELSE reports
            /\ icall' = [op |-> "run", prior |-> violations, status |-> r.status,
                         ran |-> r.ran, raised |-> r.raised,
                         recorded |-> SubSeq(r.violations, Len(violations) + 1,
                                             Len(r.violations)),
                         report |-> report]
    /\ runs' = runs + 1
    /\ UNCHANGED silver

\* checker = IntegrityChecker(): the next run is on a new instance.
NewIntegrityChecker ==
    /\ icall.op = "run"
    /\ violations' = <<>>
    /\ icall' = [op |-> "new"]
    /\ UNCHANGED <<silver, runs, reports>>

\* The pipeline rewrites the silver layer after an audit; the same instance
\* or a new one audits it next.
SilverRewritten ==
    /\ icall.op = "run"
    /\ silver # CleanSilver
    /\ silver' = CleanSilver
    /\ reports' = <<>>
    /\ icall' = [op |-> "rewrite"]
    /\ UNCHANGED <<violations, runs>>

(***************************************************************************)
(* RateLimiter and HTTPClient.get.  Times are in milliseconds; get is      *)
(* followed attempt by attempt, since time passes between its requests.    *)
(***************************************************************************)
Seconds(x) == x * 1000

\* time.time() when the client is built.
StartTime == Seconds(100000)

\* HTTPClient.__init__ (max_retries)
MaxRetries == 3

\* session.get calls the model follows.
MaxDispatches == 4

\* RateLimiter.__init__
RequestRates == {Rat(1, 1), Rat(1, 2), Rat(2, 1)}
RateLimiter(requests_per_second) ==
    [requests_per_second |-> requests_per_second,
     min_interval |-> Seconds(requests_per_second[2]) \div requests_per_second[1]]

\* self.last_request_time.get(domain, 0)
LastTime(times, domain) == IF domain \in DOMAIN times THEN times[domain] ELSE 0

\* RateLimiter.wait_if_needed(domain) called at time t: the time at which it
\* returns and the dict it leaves.
WaitIfNeeded(self, times, t, domain) ==
    LET time_since_last == t - LastTime(times, domain)
        sleep_time == IF time_since_last < self.min_interval
                      THEN self.min_interval - time_since_last ELSE 0
        done == t + sleep_time
    IN  [now |-> done,
         last_request_time |-> [d \in DOMAIN times \cup {domain} |->
                                    IF d = domain THEN done ELSE times[d]]]

\* What session.get gives: a response with its Retry-After header ("" when
\* the header is absent), or a connection error.
Response(status_code, retry_after) ==
    [kind |-> "response", status_code |-> status_code, retry_after |-> retry_after]
ConnectError == [kind |-> "ConnectError", status_code |-> 0, retry_after |-> ""]
Responses == {Response(200, ""), Response(429, ""), Response(429, "0"),
              Response(429, "soon"), Response(503, ""), ConnectError}

\* How long session.get takes.
ResponseTimes == {100, 1500}
\* How long the caller does something else before the next get.
CallerPauses == {0, Seconds(5)}

\* int(retry_after), or 60 on ValueError
RetryAfterSeconds(retry_after) ==
    IF retry_after = "0" THEN 0 ELSE 60

\* The wait after a 429.
RateLimitedWait(attempt, retry_after) ==
    IF retry_after # "" THEN RetryAfterSeconds(retry_after) ELSE 60 * (2 ^ attempt)

\* One turn of the retry loop of get after session.get has answered at time
\* t: the loop goes on after a sleep, or get returns or raises.
GetAttempt(attempt, o, t) ==
    IF o.kind = "ConnectError"
    THEN IF attempt < MaxRetries
         THEN [next |-> "continue", now |-> t + Seconds(2 ^ attempt)]
         ELSE [next |-> "raise", now |-> t]
    ELSE IF o.status_code = 429
         THEN [next |-> "continue",
               now |-> t + Seconds(RateLimitedWait(attempt, o.retry_after))]
         ELSE IF o.status_code >= 500 /\ attempt < MaxRetries
              THEN [next |-> "continue", now |-> t + Seconds(2 ^ attempt)]
              ELSE [next |-> "return", now |-> t]

\* The last two times a request left for a domain.
Dispatch(log, t) == IF Len(log) < 2 THEN Append(log, t) ELSE <<log[2], t>>

HIdle ==
    /\ rate_limiter = RateLimiter(Rat(1, 1))
    /\ hNow = StartTime
    /\ last_request_time = <<>>
    /\ hpc = [op |-> "idle"]
    /\ dispatched = [d \in Domains |-> <<>>]
    /\ dispatches = 0
    /\ hcall = [op |-> "none"]

\* RateLimiter(requests_per_second) and HTTPClient(user_agents, rate_limiter)
HStart ==
    /\ \E r \in RequestRates : rate_limiter = RateLimiter(r)
    /\ hNow = StartTime
    /\ last_request_time = <<>>
    /\ hpc = [op |-> "idle"]
    /\ dispatched = [d \in Domains |-> <<>>]
    /\ dispatches = 0
    /\ hcall = [op |-> "none"]

\* client.get(url) up to the retry loop: wait_if_needed, then the headers.
GetCall ==
    /\ hpc.op = "idle"
    /\ dispatches < MaxDispatches
    /\ \E domain \in Domains, pause \in CallerPauses :
        \E w \in {WaitIfNeeded(rate_limiter, last_request_time, hNow + pause, domain)} :
            /\ hNow' = w.now
            /\ last_request_time' = w.last_request_time
            /\ hpc' = [op |-> "get", domain |-> domain, attempt |-> 0]
            /\ hcall' = [op |-> "get", domain |-> domain]
    /\ UNCHANGED <<rate_limiter, dispatched, dispatches>>

\* One turn of `for attempt in range(self.max_retries + 1)`: session.get is
\* dispatched now; after the last turn get raises RequestError.
GetAttemptStep ==
    /\ hpc.op = "get"
    /\ dispatches < MaxDispatches
    /\ \E o \in Responses, response_time \in ResponseTimes :
        \E a \in {GetAttempt(hpc.attempt, o, hNow + response_time)} :
            /\ hNow' = a.now
            /\ hpc' = IF a.next = "continue" /\ hpc.attempt < MaxRetries
                      THEN [hpc EXCEPT !.attempt = @ + 1]
                      ELSE [op |-> "idle"]
            /\ hcall' = [op |-> "attempt", domain |-> hpc.domain,
                         attempt |-> hpc.attempt, outcome |-> o,
                         dispatched_at |-> hNow,
                         result |-> IF a.next = "continue" /\ hpc.attempt = MaxRetries
                                    THEN "raise" ELSE a.next]
    /\ dispatched' = [dispatched EXCEPT ![hpc.domain] = Dispatch(@, hNow)]
    /\ dispatches' = dispatches + 1
    /\ UNCHANGED <<rate_limiter, last_request_time>>

RIdle ==
    /\ now = 0
    /\ ticks = 0
    /\ cache = [d \in Domains |-> None]
    /\ manifests = [d \in Domains |-> None]
    /\ rcall = [op |-> "none"]

RInit == RIdle /\ QIdle /\ AIdle /\ IIdle /\ HIdle

\* time.time() moves on between two calls.
Tick ==
    /\ ticks < MaxTicks
    /\ ticks' = ticks + 1
    /\ \E adv \in Advances : now' = now + adv
    /\ rcall' = [op |-> "tick"]
    /\ UNCHANGED <<cache, manifests>>

\* What the environment did to a call: nothing when the cache answered.
Seen(gets, outcome) == IF gets = 0 THEN "cached" ELSE outcome.kind

\* parser.fetch_robots(domain)
FetchRobotsCall ==
    \E d \in Domains, o \in Outcomes :
        \E f \in {FetchRobots(cache, now, d, o)} :
            /\ cache' = f.cache
            /\ rcall' = [op |-> "fetch_robots", domain |-> d, pre |-> cache[d],
                         outcome |-> Seen(f.gets, o), status |-> f.status,
                         rules |-> IF f.status = "return" THEN f.rules ELSE None,
                         gets |-> f.gets]
            /\ UNCHANGED <<now, ticks, manifests>>

\* compliance.check_domain(domain)
CheckDomainWith(outcomes) ==
    \E d \in Domains, o \in outcomes :
        \E r \in {CheckDomain(cache, manifests, now, d, o)} :
        LET ok == r.status = "return"
        IN  /\ cache' = r.cache
            /\ manifests' = r.manifests
            /\ rcall' = [op |-> "check_domain", domain |-> d, pre |-> cache[d],
                         outcome |-> Seen(r.gets, o), status |-> r.status,
                         rules |-> IF ok THEN r.rules ELSE None,
                         gets |-> r.gets,
                         is_allowed |-> IF ok THEN r.is_allowed ELSE FALSE,
                         manifest |-> IF ok THEN r.manifest ELSE None]
            /\ UNCHANGED <<now, ticks>>

CheckDomainCall == CheckDomainWith(Outcomes)

RNext ==
    \/ Tick /\ UNCHANGED <<qVars, rpsVars, integrityVars, httpVars>>
    \/ FetchRobotsCall /\ UNCHANGED <<qVars, rpsVars, integrityVars, httpVars>>
    \/ CheckDomainCall /\ UNCHANGED <<qVars, rpsVars, integrityVars, httpVars>>

SpecRobots == RInit /\ [][RNext]_vars

\* The cache TTL passes between two calls.
Later ==
    /\ ticks < MaxTicks
    /\ ticks' = ticks + 1
    /\ now' = now + CacheTTL
    /\ rcall' = [op |-> "tick"]
    /\ UNCHANGED <<cache, manifests>>

\* compliance.check_url(url, domain)
CheckUrlCall ==
    \E d \in Domains, o \in ComplianceOutcomes, p \in CheckPaths :
        \E r \in {CheckUrl(cache, manifests, now, Url(d, p), d, o)} :
        LET ok == r.status = "return"
        IN  /\ cache' = r.cache
            /\ manifests' = r.manifests
            /\ rcall' = [op |-> "check_url", domain |-> d, url |-> Url(d, p),
                         had_manifest |-> manifests[d] # None,
                         status |-> r.status,
                         checked |-> r.checked, gets |-> r.gets,
                         rules |-> IF ok THEN r.robots_rules ELSE None,
                         result |-> IF ok THEN r.result ELSE FALSE]
            /\ UNCHANGED <<now, ticks>>

\* compliance.get_crawl_delay(domain)
GetCrawlDelayCall ==
    \E d \in Domains, o \in ComplianceOutcomes :
        \E r \in {GetCrawlDelay(cache, manifests, now, d, o)} :
            /\ cache' = r.cache
            /\ manifests' = r.manifests
            /\ rcall' = [op |-> "get_crawl_delay", domain |-> d,
                         had_manifest |-> manifests[d] # None,
                         status |-> r.status,
                         checked |-> r.checked, gets |-> r.gets,
                         result |-> IF r.status = "return" THEN r.result ELSE 0]
            /\ UNCHANGED <<now, ticks>>

\* compliance.update_manifest(domain, **kwargs)
UpdateManifestCall ==
    \E d \in Domains, kw \in KwargsChoices :
        \E r \in {UpdateManifest(manifests, d, kw)} :
            /\ manifests' = r.manifests
            /\ rcall' = [op |-> "update_manifest", domain |-> d, kwargs |-> kw,
                         before |-> manifests, status |-> r.status]
            /\ UNCHANGED <<now, ticks, cache>>

\* parser._parse_robots_content(content, domain) on a new parser.
ParseCall ==
    /\ rcall.op = "none"
    /\ \E content \in ParseContents :
           rcall' = [op |-> "parse", content |-> content,
                     rules |-> ParseRobotsContent(content, now)]
    /\ UNCHANGED <<now, ticks, cache, manifests>>

PNext == ParseCall /\ UNCHANGED <<qVars, rpsVars, integrityVars, httpVars>>

PInit == RIdle /\ QIdle /\ AIdle /\ IIdle /\ HIdle

SpecParse == PInit /\ [][PNext]_vars

CNext ==
    \/ Later /\ UNCHANGED <<qVars, rpsVars, integrityVars, httpVars>>
    \/ CheckDomainWith(ComplianceOutcomes)
           /\ UNCHANGED <<qVars, rpsVars, integrityVars, httpVars>>
    \/ CheckUrlCall /\ UNCHANGED <<qVars, rpsVars, integrityVars, httpVars>>
    \/ GetCrawlDelayCall /\ UNCHANGED <<qVars, rpsVars, integrityVars, httpVars>>
    \/ UpdateManifestCall /\ UNCHANGED <<qVars, rpsVars, integrityVars, httpVars>>

CInit == RIdle /\ QIdle /\ AIdle /\ IIdle /\ HIdle

SpecCompliance == CInit /\ [][CNext]_vars

(***************************************************************************)
(* SpecIsAllowed                                                           *)
(***************************************************************************)
QNext == CallIsAllowed /\ UNCHANGED <<robotsVars, rpsVars, integrityVars, httpVars>>

QInit == QStart /\ RIdle /\ AIdle /\ IIdle /\ HIdle

SpecIsAllowed == QInit /\ [][QNext]_vars

(***************************************************************************)
(* Claims about RobotsParser.is_allowed (SpecIsAllowed).                   *)
(***************************************************************************)
QMatchesSome(list) == \E i \in 1..Len(list) : PathMatches(UrlPath(qUrl), list[i])

\* C1: robots precedence. Whenever the url's path matches at least one
\* disallow pattern of the ruleset, is_allowed has returned false, whatever
\* the allow list holds.
C1_DisallowWins ==
    (qDone /\ Truthy(qRules) /\ QMatchesSome(qRules.disallow)) => qResult = FALSE

\* C1 witness: a denied path that matches a disallow pattern and an allow
\* pattern at once (disallow /admin/, allow /, path /admin/x).
C1_Witness ==
    /\ qDone
    /\ Truthy(qRules)
    /\ qRules.disallow = <<S_admin>>
    /\ qRules.allow = <<S_root>>
    /\ UrlPath(qUrl) = S_admin_x
    /\ qResult = FALSE

C19_DefaultAllow ==
    (qDone /\ Truthy(qRules) /\ qRules.allow # <<>>
        /\ ~QMatchesSome(qRules.allow) /\ ~QMatchesSome(qRules.disallow)) =>
        qResult = TRUE

(***************************************************************************)
(* Claims about fetch_robots and check_domain (SpecRobots).                *)
(***************************************************************************)
RIsPermissive(rules) ==
    /\ rules.allow = <<S_root>>
    /\ rules.disallow = <<>>
    /\ rules.crawl_delay = None
    /\ rules.error # NoError

\* C3: fail open. fetch_robots and check_domain never end by an exception;
\* when the fetch, the status check, the read of the body or the write of the
\* audit copy failed, the ruleset is the permissive fallback with an error
\* field, and check_domain answers is_allowed = true with a manifest of that
\* domain, which it has stored.
C3_FailOpen ==
    rcall.op \in {"fetch_robots", "check_domain"} =>
        /\ rcall.status = "return"
        /\ rcall.outcome \in FetchErrors =>
            /\ RIsPermissive(rcall.rules)
            /\ rcall.op = "check_domain" =>
                /\ rcall.is_allowed = TRUE
                /\ rcall.manifest.domain = rcall.domain
                /\ manifests[rcall.domain] = rcall.manifest

\* C3 witness: check_domain on a domain whose expired cache entry denied
\* everything, with the body unreadable: the answer is permissive.
C3_Witness ==
    /\ rcall.op = "check_domain"
    /\ rcall.outcome = "DecodeError"
    /\ rcall.pre # None
    /\ rcall.pre.rules.disallow = <<S_root>>
    /\ rcall.is_allowed = TRUE

\* C10: robots cache freshness. fetch_robots answers from the cache, without
\* a GET, exactly when the cache held an entry of the domain younger than the
\* TTL; otherwise it issues exactly one GET and, when all of the fetch
\* succeeded, the cache entry of the domain is the new ruleset with the new
\* fetch time.
C10_CacheFreshness ==
    rcall.op = "fetch_robots" =>
        LET d == rcall.domain
            fresh == rcall.pre # None /\ now - rcall.pre.timestamp < CacheTTL
        IN  /\ fresh <=> rcall.gets = 0
            /\ fresh => rcall.rules = rcall.pre.rules /\ cache[d] = rcall.pre
            /\ ~fresh => rcall.gets = 1
            /\ (~fresh /\ rcall.outcome = "ok") =>
                   cache[d] = CacheEntry(now, rcall.rules)

\* C10 witness: an entry of age exactly the TTL is replaced by a new fetch.
C10_Witness ==
    /\ rcall.op = "fetch_robots"
    /\ rcall.pre # None
    /\ now - rcall.pre.timestamp = CacheTTL
    /\ rcall.gets = 1
    /\ rcall.outcome = "ok"
    /\ cache[rcall.domain].timestamp = now
    /\ cache[rcall.domain].rules # rcall.pre.rules

(***************************************************************************)
(* SpecCompliance                                                          *)
(***************************************************************************)
\* The ruleset the parser's cache holds for a domain, {} without an entry.
CCached(d) == IF cache[d] # None THEN cache[d].rules ELSE EmptyDict

CMatchesSome(path, list) == \E i \in 1..Len(list) : PathMatches(path, list[i])

\* C11: check_url runs check_domain if and only if the domain had no
\* manifest, and returns is_allowed(url, R) for the ruleset R that the
\* parser's cache holds for the domain after that: a path matching a cached
\* disallow pattern is denied, a path matching a cached allow pattern and no
\* disallow pattern is allowed.
C11_CheckUrlUsesCache ==
    rcall.op = "check_url" =>
        LET R == CCached(rcall.domain)
            path == UrlPath(rcall.url)
        IN  /\ rcall.status = "return"
            /\ rcall.checked <=> ~rcall.had_manifest
            /\ rcall.gets > 0 => rcall.checked
            /\ rcall.rules = R
            /\ rcall.result = IsAllowed(rcall.url, R)
            /\ CMatchesSome(path, GetDisallow(R)) => rcall.result = FALSE
            /\ (CMatchesSome(path, GetAllow(R)) /\ ~CMatchesSome(path, GetDisallow(R)))
                   => rcall.result = TRUE

\* C11 witness: check_url on a domain without a manifest: check_domain ran,
\* the cache holds the fetched ruleset and the answer is its denial of
\* /admin/x.
C11_Witness ==
    /\ rcall.op = "check_url"
    /\ rcall.checked
    /\ rcall.gets = 1
    /\ cache[rcall.domain] # None
    /\ UrlPath(rcall.url) = S_admin_x
    /\ rcall.result = FALSE

\* C12: the rules used by check_url expire. Every check_url decision that is
\* made from a cache entry is made from an entry fetched less than the TTL
\* ago.
C12_CheckUrlRulesFresh ==
    (rcall.op = "check_url" /\ cache[rcall.domain] # None) =>
        now - cache[rcall.domain].timestamp < CacheTTL

\* C13: manifest lifecycle. A manifest, once there, is never deleted, and no
\* operation other than update_manifest on that domain changes its counters.
C13_ManifestKept ==
    [][\A d \in Domains :
          manifests[d] # None =>
              /\ manifests'[d] # None
              /\ ~(rcall'.op = "update_manifest" /\ rcall'.domain = d) =>
                    /\ manifests'[d].total_requests = manifests[d].total_requests
                    /\ manifests'[d].blocked_requests = manifests[d].blocked_requests
                    /\ manifests'[d].rate_limit_violations
                           = manifests[d].rate_limit_violations]_vars

CNamed(kwargs, f) == \E i \in 1..Len(kwargs) : kwargs[i][1] = f
CGiven(kwargs, f) == kwargs[CHOOSE i \in 1..Len(kwargs) : kwargs[i][1] = f][2]

\* C14: update_manifest returns without error, sets exactly the named fields
\* of the domain's manifest to the given values, leaves the other fields and
\* the other domains' manifests as they were, and creates no manifest.
C14_UpdateManifestFrame ==
    rcall.op = "update_manifest" =>
        LET d == rcall.domain
        IN  /\ rcall.status = "return"
            /\ \A e \in Domains \ {d} : manifests[e] = rcall.before[e]
            /\ rcall.before[d] = None => manifests[d] = None
            /\ rcall.before[d] # None =>
                   /\ manifests[d] # None
                   /\ \A f \in ManifestFields :
                          manifests[d][f] = IF CNamed(rcall.kwargs, f)
                                            THEN CGiven(rcall.kwargs, f)
                                            ELSE rcall.before[d][f]

\* The User-agent value that governs line i: that of the nearest User-agent
\* line above it, `*` when there is none.
PIsDirective(content, i, d) ==
    content[i].kind = "directive" /\ Lower(content[i].directive) = d
PAgent(content, i) ==
    LET above == {j \in 1..(i - 1) : PIsDirective(content, j, "user-agent")}
    IN  IF above = {} THEN "*"
        ELSE content[CHOOSE j \in above : \A k \in above : k <= j].value
PScoped(content, i, d) ==
    PIsDirective(content, i, d) /\ PAgent(content, i) \in {"*", "bot"}
RECURSIVE PValues(_, _, _)
PValues(content, d, i) ==
    IF i > Len(content) THEN <<>>
    ELSE (IF PScoped(content, i, d) THEN <<content[i].value>> ELSE <<>>)
         \o PValues(content, d, i + 1)
PDelay(content) ==
    LET ok == {i \in 1..Len(content) :
                  PScoped(content, i, "crawl-delay") /\ FloatOf(content[i].value).ok}
    IN  IF ok = {} THEN None
        ELSE Float(FloatOf(content[CHOOSE i \in ok : \A k \in ok : k <= i].value).val)

\* C17: agent scoping of the parse. The allow and disallow lists are, in
\* file order, the values of the Allow / Disallow lines governed by the
\* agent `*` or `bot`, and crawl_delay is the last Crawl-delay value of such a
\* line that parses as a float; other agents' lines, lines without a colon
\* and comment lines contribute nothing.
C17_AgentScoping ==
    rcall.op = "parse" =>
        /\ rcall.rules.allow = PValues(rcall.content, "allow", 1)
        /\ rcall.rules.disallow = PValues(rcall.content, "disallow", 1)
        /\ rcall.rules.crawl_delay = PDelay(rcall.content)

\* C17 witness: the Allow line of googlebot's block is left out and the
\* disallow line of the bot's block is kept.
C17_Witness ==
    /\ rcall.op = "parse"
    /\ rcall.content = << Directive("User-agent", "googlebot"), Directive("Allow", S_product),
                          Directive("USER-AGENT", "bot"), Directive("disallow", S_admin) >>
    /\ rcall.rules.allow = <<>>
    /\ rcall.rules.disallow = <<S_admin>>

\* C18: crawl delay. RobotsCompliance.get_crawl_delay answers what
\* RobotsParser.get_crawl_delay gave for the domain's ruleset, as stored in
\* the manifest; after a fetch by this call that is the crawl-delay of the
\* fetched ruleset when the file specified one, and 1.0 otherwise.
C18_CrawlDelayAgrees ==
    rcall.op = "get_crawl_delay" =>
        /\ rcall.status = "return"
        /\ rcall.checked <=> ~rcall.had_manifest
        /\ rcall.result = manifests[rcall.domain].crawl_delay.val
        /\ (rcall.gets = 1 /\ cache[rcall.domain] # None
                /\ cache[rcall.domain].timestamp = now) =>
               rcall.result = ParserCrawlDelay(cache[rcall.domain].rules)

(***************************************************************************)
(* SpecRPS                                                                 *)
(***************************************************************************)
AInit == AStart /\ QIdle /\ RIdle /\ IIdle /\ HIdle

ANext ==
    \/ FeedbackCall /\ UNCHANGED <<qVars, robotsVars, integrityVars, httpVars>>
    \/ WaitCall /\ UNCHANGED <<qVars, robotsVars, integrityVars, httpVars>>

SpecRPS == AInit /\ [][ANext]_vars

\* C4: rate bound invariant. In every reachable state of the limiter, from
\* construction onward, min_rps <= rps <= max_rps.
C4_RpsWithinBounds ==
    RatLeq(limiter.min_rps, limiter.rps) /\ RatLeq(limiter.rps, limiter.max_rps)

\* C15: speed-up needs a full clean window. A feedback call increases rps
\* only when, after the new outcome is recorded, the history holds 20
\* entries none of which is an error, and then rps becomes
\* min(max_rps, 1.2 * rps); the first 19 non-error responses of a fresh
\* limiter leave rps unchanged and the 20th multiplies it by 1.2, capped at
\* max_rps.
C15_SpeedUpNeedsCleanWindow ==
    [][fed' = fed + 1 =>
          LET h == limiter'.error_history
              clean == Len(h) = HistoryMaxLen /\ \A i \in 1..Len(h) : ~h[i]
              up == RatMin(limiter.max_rps, RatTimesOnePointTwo(limiter.rps))
          IN  /\ ~RatLeq(limiter'.rps, limiter.rps) => clean
              /\ clean => limiter'.rps = up
              /\ (errs' = 0 /\ fed' < HistoryMaxLen) => limiter'.rps = limiter.rps
              /\ (errs' = 0 /\ fed' = HistoryMaxLen) => limiter'.rps = up]_vars

\* C27: the throttle depends only on the window. After the outcome of a
\* feedback call is pushed (the oldest entry leaving a full history), 3 or
\* more errors in the history make rps max(min_rps, rps / 2) on that call,
\* whatever its status; with fewer than 3 errors and a history that is not
\* both full and free of errors rps is unchanged.
C27_ThrottleByWindow ==
    [][fed' = fed + 1 =>
          LET old == limiter.error_history
              h == limiter'.error_history
              n == Cardinality({i \in 1..Len(h) : h[i]})
              kept == IF Len(old) = HistoryMaxLen THEN Tail(old) ELSE old
          IN  /\ h = Append(kept, lastStatus' \in {403, 429, 503})
              /\ n >= 3 => limiter'.rps = RatMax(limiter.min_rps, RatHalf(limiter.rps))
              /\ (n < 3 /\ ~(n = 0 /\ Len(h) = HistoryMaxLen)) =>
                     limiter'.rps = limiter.rps]_vars

\* C27 witness: a limiter started at 0.5 that got three errors and then a
\* 200 has been halved twice, the second time by the 200.
C27_Witness ==
    /\ fed = 4
    /\ errs = 3
    /\ lastStatus = 200
    /\ limiter.rps = Rat(1, 8)

(***************************************************************************)
(* SpecHalving: a limiter built with rps=0.5, min_rps=0.1, max_rps=1.0.    *)
(***************************************************************************)
BInit == AIdle /\ QIdle /\ RIdle /\ IIdle /\ HIdle

BNext == BurstFeedback /\ UNCHANGED <<qVars, robotsVars, integrityVars, httpVars>>

SpecHalving == BInit /\ [][BNext]_vars

\* C16: halving scenario. From rps=0.5, min_rps=0.1, max_rps=1.0, after
\* three consecutive feedback(429) calls rps is 0.25, and after three further
\* consecutive feedback(429) calls rps is 0.125.
C16_HalvingScenario ==
    /\ (fed = 3 /\ errs = 3) => limiter.rps = Rat(1, 4)
    /\ (fed = 6 /\ errs = 6) => limiter.rps = Rat(1, 8)

(***************************************************************************)
(* SpecCrawl                                                               *)
(***************************************************************************)
KInit == KStart /\ QIdle /\ RIdle /\ IIdle /\ HIdle

KNext ==
    \/ NextStartUrl /\ UNCHANGED <<qVars, robotsVars, integrityVars, httpVars>>
    \/ NextProductUrl /\ UNCHANGED <<qVars, robotsVars, integrityVars, httpVars>>
    \/ CheckRobotsTxt /\ UNCHANGED <<qVars, robotsVars, integrityVars, httpVars>>
    \/ RateLimiterWait /\ UNCHANGED <<qVars, robotsVars, integrityVars, httpVars>>
    \/ RequestFails /\ UNCHANGED <<qVars, robotsVars, integrityVars, httpVars>>
    \/ RequestAnswered /\ UNCHANGED <<qVars, robotsVars, integrityVars, httpVars>>

SpecCrawl == KInit /\ [][KNext]_vars

\* fetch_page has just returned to crawl_site.
KReturned == crawl.pc \in {"start", "product"} /\ crawl.outcome # ""

\* C25: timeout is error feedback. A fetch that ran into its timeout returns
\* without raising and has given the limiter error feedback: feedback was
\* called for the request and the newest history entry is an error.
C25_TimeoutIsErrorFeedback ==
    (KReturned /\ crawl.outcome = "timeout") =>
        /\ \E k \in 1..Len(crawl.events) : crawl.events[k] = "feedback"
        /\ limiter.error_history # <<>>
        /\ limiter.error_history[Len(limiter.error_history)] = TRUE

\* C26: compliance gate in the fetch loop. In fetch_page the robots check
\* comes first; when it denies the path or fails, no wait, no request and no
\* feedback happen for the url; otherwise one wait precedes the one request,
\* and feedback is called once for a response received.
C26_ComplianceGate ==
    crawl.pc # "idle" =>
        LET ev == crawl.events
            full == <<"robots", "wait", "get", "feedback">>
        IN  /\ Len(ev) <= 4 /\ ev = SubSeq(full, 1, Len(ev))
            /\ crawl.pc \in {"wait", "get"} =>
                   /\ crawl.robots_cache # NotLoaded
                   /\ crawl.url \notin crawl.robots_cache.denied
            /\ (KReturned /\ crawl.outcome \in {"disallowed", "robots_failed"}) =>
                   ev = <<"robots">>
            /\ (KReturned /\ crawl.outcome \notin {"disallowed", "robots_failed"}) =>
                   /\ Len(ev) >= 3
                   /\ crawl.outcome = "response" <=> Len(ev) = 4

\* C29: page budget. In every state of a crawl the number of visited urls is
\* at most max_pages, and so is the total_pages_visited it returns.
C29_PageBudget ==
    crawl.pc # "idle" =>
        /\ Cardinality(crawl.visited) <= crawl.max_pages
        /\ crawl.pc = "done" => crawl.total_pages_visited <= crawl.max_pages

(***************************************************************************)
(* SpecIntegrity                                                           *)
(***************************************************************************)
IInit == IStart /\ QIdle /\ RIdle /\ AIdle /\ HIdle

INext ==
    \/ RunIntegrityCheckCall /\ UNCHANGED <<qVars, robotsVars, rpsVars, httpVars>>
    \/ NewIntegrityChecker /\ UNCHANGED <<qVars, robotsVars, rpsVars, httpVars>>
    \/ SilverRewritten /\ UNCHANGED <<qVars, robotsVars, rpsVars, httpVars>>

SpecIntegrity == IInit /\ [][INext]_vars

(***************************************************************************)
(* Claims about IntegrityChecker (SpecIntegrity).                          *)
(***************************************************************************)
IReturned == icall.op = "run" /\ icall.status = "return"

\* The place of a check in the order the run went through them.
IPlace(check) == CHOOSE k \in 1..Len(icall.ran) : icall.ran[k] = check

RECURSIVE INullRowsFrom(_, _)
INullRowsFrom(rows, i) ==
    IF i > Len(rows) THEN 0
    ELSE (IF rows[i].source_url = Null \/ rows[i].scrape_ts = Null THEN rows[i].n ELSE 0)
         + INullRowsFrom(rows, i + 1)

IRecordedBy(check) == SelectSeq(icall.recorded, LAMBDA v : v.check = check)

ICoreMessage(check, name, n) == Violation(check, "missing core provenance", name, n, 0)

ICoreColumns == {"source_url", "scrape_ts"}

\* C6 as stated: a null source_url or scrape_ts in a row of either table
\* gives a report of status FAIL and, per affected table, one 'missing core
\* provenance' violation with the number of such rows; with no such row in
\* either table the provenance check records nothing.
C6_ProvenanceGate ==
    icall.op = "run" =>
        LET p == INullRowsFrom(silver.products.rows, 1)
            r == INullRowsFrom(silver.reviews.rows, 1)
        IN  /\ ((p > 0 \/ r > 0) /\ IReturned) => icall.report.status = "FAIL"
            /\ p > 0 => IRecordedBy("provenance_products")
                            = <<ICoreMessage("provenance_products", "Products", p)>>
            /\ r > 0 => IRecordedBy("provenance_reviews")
                            = <<ICoreMessage("provenance_reviews", "Reviews", r)>>
            /\ (p = 0 /\ r = 0) =>
                   /\ IRecordedBy("provenance_products") = <<>>
                   /\ IRecordedBy("provenance_reviews") = <<>>

\* C6 amended: for each of the two tables whose file can be read and has the
\* columns source_url and scrape_ts: with n > 0 rows that have a null in one
\* of them, the provenance check records exactly one 'missing core
\* provenance' violation for the table, carrying n, and a report that is
\* returned has status FAIL; with no such row it records nothing for the
\* table. For a table that cannot be queried it records one error message
\* instead.
C6_ProvenanceGateReadable ==
    icall.op = "run" =>
        LET p == INullRowsFrom(silver.products.rows, 1)
            r == INullRowsFrom(silver.reviews.rows, 1)
            pq == Readable(silver.products, ICoreColumns)
            rq == Readable(silver.reviews, ICoreColumns)
        IN  /\ (((pq /\ p > 0) \/ (rq /\ r > 0)) /\ IReturned) =>
                   icall.report.status = "FAIL"
            /\ (pq /\ p > 0) => IRecordedBy("provenance_products")
                                    = <<ICoreMessage("provenance_products", "Products", p)>>
            /\ (rq /\ r > 0) => IRecordedBy("provenance_reviews")
                                    = <<ICoreMessage("provenance_reviews", "Reviews", r)>>
            /\ (pq /\ p = 0) => IRecordedBy("provenance_products") = <<>>
            /\ (rq /\ r = 0) => IRecordedBy("provenance_reviews") = <<>>
            /\ ~pq => IRecordedBy("provenance_products")
                          = <<ErrorViolation("provenance_products")>>
            /\ ~rq => IRecordedBy("provenance_reviews")
                          = <<ErrorViolation("provenance_reviews")>>

\* C6 witness: three products (two without scrape_ts, one without both) and
\* one review without source_url; both messages are in a FAIL report.
C6_Witness ==
    /\ IReturned
    /\ icall.report.status = "FAIL"
    /\ IRecordedBy("provenance_products")
           = <<ICoreMessage("provenance_products", "Products", 3)>>
    /\ IRecordedBy("provenance_reviews")
           = <<ICoreMessage("provenance_reviews", "Reviews", 1)>>

IFixtureChecks == {"fixture_products", "fixture_reviews"}

\* C7 as stated: every check in which an exception was raised has added a
\* violation message to the report, and every check has run.
C7_ExceptionIsolation ==
    icall.op = "run" =>
        /\ icall.ran = AllChecks
        /\ \A c \in icall.raised : IRecordedBy(c) # <<>>

\* C7 amended: every check runs whatever was raised in the checks before it;
\* an exception raised in the provenance check of either table, the
\* refillable-evidence check, the robots-provenance query, any of the seven
\* synthetic-indicator sub-checks, the price-sanity check or the audit sample
\* adds exactly one message naming that check and nothing else of that check;
\* an exception raised in the fixture-contamination check of either table
\* adds no message.
C7_ExceptionIsolationButFixtures ==
    icall.op = "run" =>
        /\ icall.ran = AllChecks
        /\ "file_existence" \notin icall.raised
        /\ \A c \in icall.raised \ IFixtureChecks :
               IRecordedBy(c) = <<ErrorViolation(c)>>
        /\ \A c \in icall.raised \cap IFixtureChecks : IRecordedBy(c) = <<>>

\* C7 witness: one run in which the products provenance query, the review
\* duplication sub-check, the audit sample and a fixture check all raised.
C7_Witness ==
    /\ icall.op = "run"
    /\ {"provenance_products", "review_duplication", "audit_sample",
        "fixture_products"} \subseteq icall.raised
    /\ icall.ran = AllChecks

\* C8: idempotence. Any two reports returned against an unchanged silver
\* layer hold the same violation list, the same total and the same status.
C8_Idempotent ==
    \A i, j \in 1..Len(reports) :
        /\ reports[i].violations = reports[j].violations
        /\ reports[i].total_violations = reports[j].total_violations
        /\ reports[i].status = reports[j].status

\* C20: price-gap uniformity. On a readable products table the price-gap
\* check records its violation exactly when the table holds at least 2
\* products and the sorted distinct non-null prices have at most 1 distinct
\* consecutive gap.
C20_PriceGapUniformity ==
    (icall.op = "run" /\ (\E k \in 1..Len(icall.ran) : icall.ran[k] = "price_gaps")
        /\ Readable(silver.products, {"price_value"})) =>
        LET flagged == \E i \in 1..Len(icall.recorded) :
                           /\ icall.recorded[i].check = "price_gaps"
                           /\ icall.recorded[i].kind = "Price gaps too uniform"
            rows == silver.products.rows
        IN  flagged <=> (Count(rows) >= 2 /\ Cardinality(Gaps(DistinctPrices(rows))) <= 1)

\* The checks of the last run, and what the run is on.
IRan(check) == icall.op = "run" /\ \E k \in 1..Len(icall.ran) : icall.ran[k] = check
IFlagged(check, kind, subject) ==
    \E i \in 1..Len(icall.recorded) :
        /\ icall.recorded[i].check = check
        /\ icall.recorded[i].kind = kind
        /\ icall.recorded[i].subject = subject
IBrands == {silver.products.rows[i].brand : i \in 1..Len(silver.products.rows)}

\* C21: price sanity thresholds. For every brand with at least 10 products
\* the check records a violation when the brand has at most 2 distinct price
\* levels, and one when its minimum price equals its maximum price; a brand
\* with fewer than 10 products is not flagged.
C21_PriceSanityThresholds ==
    (IRan("price_sanity") /\ Readable(silver.products, {"brand", "price_value"})) =>
        \A b \in IBrands :
            LET g == BrandStats(silver.products.rows, b)
                few == IFlagged("price_sanity", "suspiciously few price levels", b)
                same == IFlagged("price_sanity", "identical min/max prices", b)
            IN  /\ (g.n >= 10 /\ g.price_levels <= 2) => few
                /\ (g.n >= 10 /\ g.pmin # NullNum /\ g.pmin = g.pmax) => same
                /\ g.n < 10 => ~few /\ ~same

\* C22: review duplication. The check records a violation exactly when the
\* reviews in (rating, text) groups of more than one review are more than 10%
\* of all reviews; a non-empty table without duplicates gets none.
C22_ReviewDuplication ==
    (IRan("review_duplication") /\ Readable(silver.reviews, {"rating", "text"})) =>
        LET rows == silver.reviews.rows
            duplicated == Count(SelectSeq(rows, LAMBDA r : r.copies > 1))
        IN  (IRecordedBy("review_duplication") # <<>>)
                <=> (duplicated * 100 > 10 * Count(rows))

\* C23: rating bounds. Whatever the size of the reviews table, a review with
\* a rating outside [1,5] makes the check record a violation, and with every
\* rating within [1,5] it records none.
C23_RatingBounds ==
    (IRan("rating_bounds") /\ Readable(silver.reviews, {"rating"})) =>
        LET rows == silver.reviews.rows
            flagged == IRecordedBy("rating_bounds") # <<>>
        IN  /\ (\E i \in 1..Len(rows) :
                    rows[i].rating # NullNum /\ rows[i].rating \notin 1..5) => flagged
            /\ (\A i \in 1..Len(rows) : rows[i].rating \in 1..5) => ~flagged

\* C24: audit sample. The sample has at most 20 rows, each with source_url
\* and scrape_ts non-null, and the report's audit_sample_size is the number
\* of rows of the sample, 0 when the sample could not be produced.
C24_AuditSample ==
    (IReturned /\ IRan("audit_sample")) =>
        LET size == icall.report.audit_sample_size
            made == "audit_sample" \notin icall.raised
            rows == AuditCandidates(silver)
        IN  /\ size <= AuditLimit
            /\ ~made => size = 0
            /\ made => size = (IF Count(rows) < AuditLimit THEN Count(rows) ELSE AuditLimit)
            /\ (made /\ Count(rows) <= AuditLimit) =>
                   \A i \in 1..Len(rows) :
                       rows[i].source_url # Null /\ rows[i].scrape_ts # Null

(***************************************************************************)
(* SpecStreak: a limiter that, after a few calls of any status, gets       *)
(* feedback of one kind only.  The run is unbroken, so feedback keeps      *)
(* being called: weak fairness on the feedback of the run.                 *)
(***************************************************************************)
SInit == SStart /\ QIdle /\ RIdle /\ IIdle /\ HIdle

SNext ==
    \/ StreakPrefix /\ UNCHANGED <<qVars, robotsVars, integrityVars, httpVars>>
    \/ StreakBegins /\ UNCHANGED <<qVars, robotsVars, integrityVars, httpVars>>
    \/ StreakFeedback /\ UNCHANGED <<qVars, robotsVars, integrityVars, httpVars>>

SpecStreak == SInit /\ [][SNext]_vars /\ WF_rpsVars(StreakFeedback)

\* 0 < min_rps <= rps <= max_rps
SWithinBounds ==
    /\ limiter.min_rps[1] > 0
    /\ RatLeq(limiter.min_rps, limiter.rps)
    /\ RatLeq(limiter.rps, limiter.max_rps)

\* a < b for rates a and b, by their continued fractions.
RECURSIVE SBelow(_, _)
SBelow(a, b) ==
    IF a[1] \div a[2] # b[1] \div b[2] THEN a[1] \div a[2] < b[1] \div b[2]
    ELSE IF b[1] % b[2] = 0 THEN FALSE
    ELSE IF a[1] % a[2] = 0 THEN TRUE
    ELSE SBelow(<<b[2], b[1] % b[2]>>, <<a[2], a[1] % a[2]>>)

\* C30: convergence of the adaptive limiter. From a state with
\* 0 < min_rps <= rps <= max_rps, a run of non-error feedback leads to rps
\* being max_rps for the rest of the run, and rps rises in such a run only
\* on a call that leaves the window full and free of errors; a run of error
\* feedback leads to rps being min_rps for the rest of the run.
C30_Convergence ==
    /\ (streak.kind = "clean" /\ SWithinBounds) ~> [](limiter.rps = limiter.max_rps)
    /\ (streak.kind = "error" /\ SWithinBounds) ~> [](limiter.rps = limiter.min_rps)
    /\ [][(streak.kind = "clean" /\ SWithinBounds
              /\ SBelow(limiter.rps, limiter'.rps)) =>
             /\ Len(limiter'.error_history) = HistoryMaxLen
             /\ Sum(limiter'.error_history) = 0]_vars

\* C30 witness: a run of non-error feedback that began at rps 1/4 with three
\* errors in the window has brought rps to max_rps.
C30_Witness ==
    /\ streak.kind = "clean"
    /\ streak.from = Rat(1, 4)
    /\ errs = 3
    /\ limiter.rps = limiter.max_rps

(***************************************************************************)
(* SpecHTTP                                                                *)
(***************************************************************************)
HInit == HStart /\ QIdle /\ RIdle /\ AIdle /\ IIdle

HNext ==
    \/ GetCall /\ UNCHANGED <<qVars, robotsVars, rpsVars, integrityVars>>
    \/ GetAttemptStep /\ UNCHANGED <<qVars, robotsVars, rpsVars, integrityVars>>

SpecHTTP == HInit /\ [][HNext]_vars

\* C9: per-domain pacing. Any two consecutive requests that left for the
\* same domain, retries inside one get included, are at least min_interval
\* apart.
C9_PerDomainPacing ==
    \A d \in Domains :
        Len(dispatched[d]) = 2 =>
            dispatched[d][2] - dispatched[d][1] >= rate_limiter.min_interval

\* C28: the retry loop exits. Every turn of the loop is one of the
\* max_retries + 1 turns, and when get ends it has either returned the
\* response of that turn or re-raised its connection error: it never raises
\* after a turn that got a response, which is what the statement after the
\* loop does.
C28_RetryLoopExits ==
    hcall.op = "attempt" =>
        /\ hcall.attempt <= MaxRetries
        /\ hcall.result = "return" => hcall.outcome.kind = "response"
        /\ hcall.result = "raise" => hcall.outcome.kind = "ConnectError"

====
